---- MODULE Spec2Model ----
(***************************************************************************)
(* Gabbi, the Tona Law intake agent (src/retell_bridge.py): the websocket  *)
(* receive loop, the per-call registries of GabbiTonaLawAgent and          *)
(* ConversationFlow, the dialogue flow and the text enhancement passes.    *)
(*                                                                         *)
(* Python strings are sequences of one-character strings, so that lower(), *)
(* the substring tests ("keyword in text"), len() and replace() are        *)
(* computed as the code computes them.  A transcript entry is a record     *)
(* [shape, role, content]; shape tells what the JSON value is:             *)
(*   "msg"           a dict whose "content" is a string                    *)
(*   "no_content"    a dict without a "content" key                        *)
(*   "null_content"  a dict whose "content" is null (not a string)         *)
(*   "not_dict"      a JSON value that is not a dict (it has no .get)      *)
(* A Python value that may be None is a record [none, str].  The field     *)
(* start_time of an active_calls entry (time.time(), written once, never   *)
(* read) is left out of the entry.                                         *)
(***************************************************************************)
EXTENDS Integers, Sequences, FiniteSets, TLC

VARIABLES
  hashseed,             \* the process's string-hash salt (PYTHONHASHSEED)
  current_state,        \* ConversationFlow.current_state: call_id -> state
  collected_info,       \* ConversationFlow.collected_info: call_id -> slots
  active_calls,         \* GabbiTonaLawAgent.active_calls: call_id -> metadata
  conversation_memory,  \* GabbiTonaLawAgent.conversation_memory: call_id -> window
  pc,                   \* each connection's position in websocket_endpoint
  call_of,              \* each connection's call_id (the path parameter)
  data,                 \* the payload the connection's loop iteration received
  caught,               \* the except clause the connection's last iteration ended in
  response_data         \* the messages that iteration handed to send_text

vars == <<hashseed, current_state, collected_info, active_calls,
          conversation_memory, pc, call_of, data, caught, response_data>>

registries == <<current_state, collected_info, active_calls, conversation_memory>>

----------------------------------------------------------------------------
(* Bounds of the model. *)

\* hash salts a process may start with: 0..MaxSeed
MaxSeed == 1
\* response_id values the transport sends: 1..MaxResponseId
MaxResponseId == 2
\* length of the leading run of older entries of a long transcript
MaxPad == 10
\* distinct free-text slot values one caller gives while slots are collected
MaxVocab == 2

----------------------------------------------------------------------------
(* Python text operations. *)

UpperCase == <<"A","B","C","D","E","F","G","H","I","J","K","L","M",
               "N","O","P","Q","R","S","T","U","V","W","X","Y","Z">>
LowerCase == <<"a","b","c","d","e","f","g","h","i","j","k","l","m",
               "n","o","p","q","r","s","t","u","v","w","x","y","z">>

\* str.lower() on one character
LowerChar(ch) ==
  IF \E i \in 1..Len(UpperCase) : UpperCase[i] = ch
  THEN LowerCase[CHOOSE i \in 1..Len(UpperCase) : UpperCase[i] = ch]
  ELSE ch

\* str.lower()
lower(s) == [i \in 1..Len(s) |-> LowerChar(s[i])]

\* "k in s" on strings
Contains(s, k) ==
  \E i \in 0..(Len(s) - Len(k)) : SubSeq(s, i + 1, i + Len(k)) = k

\* any(word in s for word in words)
AnyIn(words, s) == \E j \in 1..Len(words) : Contains(s, words[j])

\* str.replace('. ', '... '): two matches of '. ' never overlap, so every
\* '.' that a ' ' follows becomes '...'; the text is rewritten by halves
RECURSIVE replace_range(_, _, _)
replace_range(s, lo, hi) ==
  IF lo > hi THEN <<>>
  ELSE IF lo = hi
  THEN IF s[lo] = "." /\ lo < Len(s) /\ s[lo + 1] = " "
       THEN <<".", ".", ".">> ELSE <<s[lo]>>
  ELSE LET mid == (lo + hi) \div 2 IN
       replace_range(s, lo, mid) \o replace_range(s, mid + 1, hi)
replace_pauses(s) == replace_range(s, 1, Len(s))

\* ' '.join(parts)
RECURSIVE join(_)
join(parts) ==
  IF Len(parts) = 0 THEN <<>>
  ELSE IF Len(parts) = 1 THEN parts[1]
  ELSE parts[1] \o <<" ">> \o join(Tail(parts))

\* seq[-n:]
LastN(seq, n) ==
  IF Len(seq) <= n THEN seq ELSE SubSeq(seq, Len(seq) - n + 1, Len(seq))

\* a Python value that may be None
None == [none |-> TRUE, str |-> <<>>]
Str(s) == [none |-> FALSE, str |-> s]

\* (variant) removing one id empties the registry
pop_clear(d, k) == [x \in {} |-> d[x]]

\* a registry keyed by call_id is a function on the ids it holds:
\* d[k] = v, and d.pop(k, None)
Put(d, k, v) == (k :> v) @@ d
Pop(d, k) == [x \in (DOMAIN d) \ {k} |-> d[x]]

\* a dict with string keys is the sequence of its <<key, value>> items in
\* insertion order: "k in d", d[k], and d[k] = v
Has(d, k) == \E i \in 1..Len(d) : d[i][1] = k
Get(d, k) == d[CHOOSE i \in 1..Len(d) : d[i][1] = k][2]
Set(d, k, v) ==
  IF Has(d, k) THEN [i \in 1..Len(d) |-> IF d[i][1] = k THEN <<k, v>> ELSE d[i]]
  ELSE Append(d, <<k, v>>)

----------------------------------------------------------------------------
(* The literal texts of the source. *)

\* source line 132: 'Hi, this is Gabbi, the AI receptionist at TonaLaw. How can I help you?'
GREETING ==
  <<"H","i",","," ","t","h","i","s"," ","i","s"," ","G","a","b","b","i",","," ","t","h","e"," ",
     "A","I"," ","r","e","c","e","p","t","i","o","n","i","s","t"," ","a","t"," ","T","o","n","a",
     "L","a","w","."," ","H","o","w"," ","c","a","n"," ","I"," ","h","e","l","p"," ","y","o","u",
     "?">>

\* source line 396: "I'm still here if you need a moment to think or if you'd like to continue. Take your time."
REMINDER ==
  <<"I","'","m"," ","s","t","i","l","l"," ","h","e","r","e"," ","i","f"," ","y","o","u"," ","n",
     "e","e","d"," ","a"," ","m","o","m","e","n","t"," ","t","o"," ","t","h","i","n","k"," ","o",
     "r"," ","i","f"," ","y","o","u","'","d"," ","l","i","k","e"," ","t","o"," ","c","o","n","t",
     "i","n","u","e","."," ","T","a","k","e"," ","y","o","u","r"," ","t","i","m","e",".">>

\* source line 175: 'Okay got it so to confirm, you are calling about a personal injury matter, right?'
CONFIRM_PERSONAL_INJURY ==
  <<"O","k","a","y"," ","g","o","t"," ","i","t"," ","s","o"," ","t","o"," ","c","o","n","f","i",
     "r","m",","," ","y","o","u"," ","a","r","e"," ","c","a","l","l","i","n","g"," ","a","b","o",
     "u","t"," ","a"," ","p","e","r","s","o","n","a","l"," ","i","n","j","u","r","y"," ","m","a",
     "t","t","e","r",","," ","r","i","g","h","t","?">>

\* source line 177: 'We appreciate you calling us at Tona Law. What kind of matter can I assist you with?'
WHAT_KIND_OF_MATTER ==
  <<"W","e"," ","a","p","p","r","e","c","i","a","t","e"," ","y","o","u"," ","c","a","l","l","i",
     "n","g"," ","u","s"," ","a","t"," ","T","o","n","a"," ","L","a","w","."," ","W","h","a","t",
     " ","k","i","n","d"," ","o","f"," ","m","a","t","t","e","r"," ","c","a","n"," ","I"," ","a",
     "s","s","i","s","t"," ","y","o","u"," ","w","i","t","h","?">>

\* source line 181: "We appreciate you calling us at Tona Law. I understand you're calling about no-fault collection. What is the name of your practice?"
NO_FAULT_INTRO ==
  <<"W","e"," ","a","p","p","r","e","c","i","a","t","e"," ","y","o","u"," ","c","a","l","l","i",
     "n","g"," ","u","s"," ","a","t"," ","T","o","n","a"," ","L","a","w","."," ","I"," ","u","n",
     "d","e","r","s","t","a","n","d"," ","y","o","u","'","r","e"," ","c","a","l","l","i","n","g",
     " ","a","b","o","u","t"," ","n","o","-","f","a","u","l","t"," ","c","o","l","l","e","c","t",
     "i","o","n","."," ","W","h","a","t"," ","i","s"," ","t","h","e"," ","n","a","m","e"," ","o",
     "f"," ","y","o","u","r"," ","p","r","a","c","t","i","c","e","?">>

\* source line 184: "I appreciate you calling us, but we actually don't handle these types of cases. I recommend you contact a law firm that specializes in that area. Is there anything else I can help you with?"
OUTSIDE_PRACTICE ==
  <<"I"," ","a","p","p","r","e","c","i","a","t","e"," ","y","o","u"," ","c","a","l","l","i","n",
     "g"," ","u","s",","," ","b","u","t"," ","w","e"," ","a","c","t","u","a","l","l","y"," ","d",
     "o","n","'","t"," ","h","a","n","d","l","e"," ","t","h","e","s","e"," ","t","y","p","e","s",
     " ","o","f"," ","c","a","s","e","s","."," ","I"," ","r","e","c","o","m","m","e","n","d"," ",
     "y","o","u"," ","c","o","n","t","a","c","t"," ","a"," ","l","a","w"," ","f","i","r","m"," ",
     "t","h","a","t"," ","s","p","e","c","i","a","l","i","z","e","s"," ","i","n"," ","t","h","a",
     "t"," ","a","r","e","a","."," ","I","s"," ","t","h","e","r","e"," ","a","n","y","t","h","i",
     "n","g"," ","e","l","s","e"," ","I"," ","c","a","n"," ","h","e","l","p"," ","y","o","u"," ",
     "w","i","t","h","?">>

\* source line 195: 'Let me start by getting your first and last name. Do you mind spelling your full name slowly and clearly for me?'
ASK_NAME ==
  <<"L","e","t"," ","m","e"," ","s","t","a","r","t"," ","b","y"," ","g","e","t","t","i","n","g",
     " ","y","o","u","r"," ","f","i","r","s","t"," ","a","n","d"," ","l","a","s","t"," ","n","a",
     "m","e","."," ","D","o"," ","y","o","u"," ","m","i","n","d"," ","s","p","e","l","l","i","n",
     "g"," ","y","o","u","r"," ","f","u","l","l"," ","n","a","m","e"," ","s","l","o","w","l","y",
     " ","a","n","d"," ","c","l","e","a","r","l","y"," ","f","o","r"," ","m","e","?">>

\* source line 197: 'What is the name of your practice?'
ASK_PRACTICE_NAME ==
  <<"W","h","a","t"," ","i","s"," ","t","h","e"," ","n","a","m","e"," ","o","f"," ","y","o","u",
     "r"," ","p","r","a","c","t","i","c","e","?">>

\* source line 204: 'And to confirm, is the number you are calling us from the best number to reach you at?'
ASK_PHONE ==
  <<"A","n","d"," ","t","o"," ","c","o","n","f","i","r","m",","," ","i","s"," ","t","h","e"," ",
     "n","u","m","b","e","r"," ","y","o","u"," ","a","r","e"," ","c","a","l","l","i","n","g"," ",
     "u","s"," ","f","r","o","m"," ","t","h","e"," ","b","e","s","t"," ","n","u","m","b","e","r",
     " ","t","o"," ","r","e","a","c","h"," ","y","o","u"," ","a","t","?">>

\* source line 212: 'Can you briefly explain the situation?'
ASK_SITUATION ==
  <<"C","a","n"," ","y","o","u"," ","b","r","i","e","f","l","y"," ","e","x","p","l","a","i","n",
     " ","t","h","e"," ","s","i","t","u","a","t","i","o","n","?">>

\* source line 215: 'Thank you. What type of healthcare provider are you?'
ASK_PROVIDER_TYPE ==
  <<"T","h","a","n","k"," ","y","o","u","."," ","W","h","a","t"," ","t","y","p","e"," ","o","f",
     " ","h","e","a","l","t","h","c","a","r","e"," ","p","r","o","v","i","d","e","r"," ","a","r",
     "e"," ","y","o","u","?">>

\* source line 221: 'Where and when did the accident happen?'
ASK_WHERE_WHEN ==
  <<"W","h","e","r","e"," ","a","n","d"," ","w","h","e","n"," ","d","i","d"," ","t","h","e"," ",
     "a","c","c","i","d","e","n","t"," ","h","a","p","p","e","n","?">>

\* source line 224: 'Can you please describe the injuries from the accident?'
ASK_INJURIES ==
  <<"C","a","n"," ","y","o","u"," ","p","l","e","a","s","e"," ","d","e","s","c","r","i","b","e",
     " ","t","h","e"," ","i","n","j","u","r","i","e","s"," ","f","r","o","m"," ","t","h","e"," ",
     "a","c","c","i","d","e","n","t","?">>

\* source line 231: "Okay so what I'd like to do now is transfer you over to my colleague who will help you with the next steps. Again, I'm very sorry to hear about your situation but you made the right call. I'm transferring you now."
TRANSFER_PERSONAL_INJURY ==
  <<"O","k","a","y"," ","s","o"," ","w","h","a","t"," ","I","'","d"," ","l","i","k","e"," ","t",
     "o"," ","d","o"," ","n","o","w"," ","i","s"," ","t","r","a","n","s","f","e","r"," ","y","o",
     "u"," ","o","v","e","r"," ","t","o"," ","m","y"," ","c","o","l","l","e","a","g","u","e"," ",
     "w","h","o"," ","w","i","l","l"," ","h","e","l","p"," ","y","o","u"," ","w","i","t","h"," ",
     "t","h","e"," ","n","e","x","t"," ","s","t","e","p","s","."," ","A","g","a","i","n",","," ",
     "I","'","m"," ","v","e","r","y"," ","s","o","r","r","y"," ","t","o"," ","h","e","a","r"," ",
     "a","b","o","u","t"," ","y","o","u","r"," ","s","i","t","u","a","t","i","o","n"," ","b","u",
     "t"," ","y","o","u"," ","m","a","d","e"," ","t","h","e"," ","r","i","g","h","t"," ","c","a",
     "l","l","."," ","I","'","m"," ","t","r","a","n","s","f","e","r","r","i","n","g"," ","y","o",
     "u"," ","n","o","w",".">>

\* source line 234: "I understand. Since there were no injuries, this might not qualify for a personal injury case. However, I'd be happy to discuss other options or see if there's anything else I can help you with."
NO_INJURIES ==
  <<"I"," ","u","n","d","e","r","s","t","a","n","d","."," ","S","i","n","c","e"," ","t","h","e",
     "r","e"," ","w","e","r","e"," ","n","o"," ","i","n","j","u","r","i","e","s",","," ","t","h",
     "i","s"," ","m","i","g","h","t"," ","n","o","t"," ","q","u","a","l","i","f","y"," ","f","o",
     "r"," ","a"," ","p","e","r","s","o","n","a","l"," ","i","n","j","u","r","y"," ","c","a","s",
     "e","."," ","H","o","w","e","v","e","r",","," ","I","'","d"," ","b","e"," ","h","a","p","p",
     "y"," ","t","o"," ","d","i","s","c","u","s","s"," ","o","t","h","e","r"," ","o","p","t","i",
     "o","n","s"," ","o","r"," ","s","e","e"," ","i","f"," ","t","h","e","r","e","'","s"," ","a",
     "n","y","t","h","i","n","g"," ","e","l","s","e"," ","I"," ","c","a","n"," ","h","e","l","p",
     " ","y","o","u"," ","w","i","t","h",".">>

\* source line 240: 'Do you currently accept No-Fault Insurance in your practice as a form of payment?'
ASK_ACCEPTS_NO_FAULT ==
  <<"D","o"," ","y","o","u"," ","c","u","r","r","e","n","t","l","y"," ","a","c","c","e","p","t",
     " ","N","o","-","F","a","u","l","t"," ","I","n","s","u","r","a","n","c","e"," ","i","n"," ",
     "y","o","u","r"," ","p","r","a","c","t","i","c","e"," ","a","s"," ","a"," ","f","o","r","m",
     " ","o","f"," ","p","a","y","m","e","n","t","?">>

\* source line 243: 'What is your estimate of the dollar amount outstanding to date in wrongly denied no fault benefits?'
ASK_OUTSTANDING_AMOUNT ==
  <<"W","h","a","t"," ","i","s"," ","y","o","u","r"," ","e","s","t","i","m","a","t","e"," ","o",
     "f"," ","t","h","e"," ","d","o","l","l","a","r"," ","a","m","o","u","n","t"," ","o","u","t",
     "s","t","a","n","d","i","n","g"," ","t","o"," ","d","a","t","e"," ","i","n"," ","w","r","o",
     "n","g","l","y"," ","d","e","n","i","e","d"," ","n","o"," ","f","a","u","l","t"," ","b","e",
     "n","e","f","i","t","s","?">>

\* source line 247: "Thank you for that information. Let me transfer you to one of our attorneys who specializes in no-fault collection cases. They'll be able to help you with the next steps."
TRANSFER_NO_FAULT ==
  <<"T","h","a","n","k"," ","y","o","u"," ","f","o","r"," ","t","h","a","t"," ","i","n","f","o",
     "r","m","a","t","i","o","n","."," ","L","e","t"," ","m","e"," ","t","r","a","n","s","f","e",
     "r"," ","y","o","u"," ","t","o"," ","o","n","e"," ","o","f"," ","o","u","r"," ","a","t","t",
     "o","r","n","e","y","s"," ","w","h","o"," ","s","p","e","c","i","a","l","i","z","e","s"," ",
     "i","n"," ","n","o","-","f","a","u","l","t"," ","c","o","l","l","e","c","t","i","o","n"," ",
     "c","a","s","e","s","."," ","T","h","e","y","'","l","l"," ","b","e"," ","a","b","l","e"," ",
     "t","o"," ","h","e","l","p"," ","y","o","u"," ","w","i","t","h"," ","t","h","e"," ","n","e",
     "x","t"," ","s","t","e","p","s",".">>

\* source line 255: 'I want to make sure I understand you correctly. Could you please repeat that for me?'
PLEASE_REPEAT ==
  <<"I"," ","w","a","n","t"," ","t","o"," ","m","a","k","e"," ","s","u","r","e"," ","I"," ","u",
     "n","d","e","r","s","t","a","n","d"," ","y","o","u"," ","c","o","r","r","e","c","t","l","y",
     "."," ","C","o","u","l","d"," ","y","o","u"," ","p","l","e","a","s","e"," ","r","e","p","e",
     "a","t"," ","t","h","a","t"," ","f","o","r"," ","m","e","?">>

\* source line 47: "Whether your situation qualifies as a personal injury case depends on the details of your incident. If you've been injured due to someone else's negligence, you may have a valid claim. I can gather more information now to evaluate your case."
FAQ_ANSWER_1 ==
  <<"W","h","e","t","h","e","r"," ","y","o","u","r"," ","s","i","t","u","a","t","i","o","n"," ",
     "q","u","a","l","i","f","i","e","s"," ","a","s"," ","a"," ","p","e","r","s","o","n","a","l",
     " ","i","n","j","u","r","y"," ","c","a","s","e"," ","d","e","p","e","n","d","s"," ","o","n",
     " ","t","h","e"," ","d","e","t","a","i","l","s"," ","o","f"," ","y","o","u","r"," ","i","n",
     "c","i","d","e","n","t","."," ","I","f"," ","y","o","u","'","v","e"," ","b","e","e","n"," ",
     "i","n","j","u","r","e","d"," ","d","u","e"," ","t","o"," ","s","o","m","e","o","n","e"," ",
     "e","l","s","e","'","s"," ","n","e","g","l","i","g","e","n","c","e",","," ","y","o","u"," ",
     "m","a","y"," ","h","a","v","e"," ","a"," ","v","a","l","i","d"," ","c","l","a","i","m",".",
     " ","I"," ","c","a","n"," ","g","a","t","h","e","r"," ","m","o","r","e"," ","i","n","f","o",
     "r","m","a","t","i","o","n"," ","n","o","w"," ","t","o"," ","e","v","a","l","u","a","t","e",
     " ","y","o","u","r"," ","c","a","s","e",".">>

\* source line 48: 'The value of your case depends on factors like medical expenses, lost wages, pain and suffering, and the extent of your injuries. I can discuss your situation in more detail to provide an initial estimate.'
FAQ_ANSWER_2 ==
  <<"T","h","e"," ","v","a","l","u","e"," ","o","f"," ","y","o","u","r"," ","c","a","s","e"," ",
     "d","e","p","e","n","d","s"," ","o","n"," ","f","a","c","t","o","r","s"," ","l","i","k","e",
     " ","m","e","d","i","c","a","l"," ","e","x","p","e","n","s","e","s",","," ","l","o","s","t",
     " ","w","a","g","e","s",","," ","p","a","i","n"," ","a","n","d"," ","s","u","f","f","e","r",
     "i","n","g",","," ","a","n","d"," ","t","h","e"," ","e","x","t","e","n","t"," ","o","f"," ",
     "y","o","u","r"," ","i","n","j","u","r","i","e","s","."," ","I"," ","c","a","n"," ","d","i",
     "s","c","u","s","s"," ","y","o","u","r"," ","s","i","t","u","a","t","i","o","n"," ","i","n",
     " ","m","o","r","e"," ","d","e","t","a","i","l"," ","t","o"," ","p","r","o","v","i","d","e",
     " ","a","n"," ","i","n","i","t","i","a","l"," ","e","s","t","i","m","a","t","e",".">>

\* source line 49: 'We work on a contingency fee basis, meaning you pay nothing upfront. We only get paid if you win your case, with fees typically a percentage of your settlement or award. I can explain this further.'
FAQ_ANSWER_3 ==
  <<"W","e"," ","w","o","r","k"," ","o","n"," ","a"," ","c","o","n","t","i","n","g","e","n","c",
     "y"," ","f","e","e"," ","b","a","s","i","s",","," ","m","e","a","n","i","n","g"," ","y","o",
     "u"," ","p","a","y"," ","n","o","t","h","i","n","g"," ","u","p","f","r","o","n","t","."," ",
     "W","e"," ","o","n","l","y"," ","g","e","t"," ","p","a","i","d"," ","i","f"," ","y","o","u",
     " ","w","i","n"," ","y","o","u","r"," ","c","a","s","e",","," ","w","i","t","h"," ","f","e",
     "e","s"," ","t","y","p","i","c","a","l","l","y"," ","a"," ","p","e","r","c","e","n","t","a",
     "g","e"," ","o","f"," ","y","o","u","r"," ","s","e","t","t","l","e","m","e","n","t"," ","o",
     "r"," ","a","w","a","r","d","."," ","I"," ","c","a","n"," ","e","x","p","l","a","i","n"," ",
     "t","h","i","s"," ","f","u","r","t","h","e","r",".">>

\* source line 50: "The timeline for resolving a personal injury case varies based on its complexity, the extent of your injuries, and whether it settles or goes to trial. Simple cases may take months, while others could take a year or more. I'll keep you updated throughout the process."
FAQ_ANSWER_4 ==
  <<"T","h","e"," ","t","i","m","e","l","i","n","e"," ","f","o","r"," ","r","e","s","o","l","v",
     "i","n","g"," ","a"," ","p","e","r","s","o","n","a","l"," ","i","n","j","u","r","y"," ","c",
     "a","s","e"," ","v","a","r","i","e","s"," ","b","a","s","e","d"," ","o","n"," ","i","t","s",
     " ","c","o","m","p","l","e","x","i","t","y",","," ","t","h","e"," ","e","x","t","e","n","t",
     " ","o","f"," ","y","o","u","r"," ","i","n","j","u","r","i","e","s",","," ","a","n","d"," ",
     "w","h","e","t","h","e","r"," ","i","t"," ","s","e","t","t","l","e","s"," ","o","r"," ","g",
     "o","e","s"," ","t","o"," ","t","r","i","a","l","."," ","S","i","m","p","l","e"," ","c","a",
     "s","e","s"," ","m","a","y"," ","t","a","k","e"," ","m","o","n","t","h","s",","," ","w","h",
     "i","l","e"," ","o","t","h","e","r","s"," ","c","o","u","l","d"," ","t","a","k","e"," ","a",
     " ","y","e","a","r"," ","o","r"," ","m","o","r","e","."," ","I","'","l","l"," ","k","e","e",
     "p"," ","y","o","u"," ","u","p","d","a","t","e","d"," ","t","h","r","o","u","g","h","o","u",
     "t"," ","t","h","e"," ","p","r","o","c","e","s","s",".">>

\* source line 51: 'Seek medical care for your injuries, document everything like photos, medical records, and receipts, and avoid speaking with insurance adjusters before I advise you. I can guide you on the next steps right now.'
FAQ_ANSWER_5 ==
  <<"S","e","e","k"," ","m","e","d","i","c","a","l"," ","c","a","r","e"," ","f","o","r"," ","y",
     "o","u","r"," ","i","n","j","u","r","i","e","s",","," ","d","o","c","u","m","e","n","t"," ",
     "e","v","e","r","y","t","h","i","n","g"," ","l","i","k","e"," ","p","h","o","t","o","s",",",
     " ","m","e","d","i","c","a","l"," ","r","e","c","o","r","d","s",","," ","a","n","d"," ","r",
     "e","c","e","i","p","t","s",","," ","a","n","d"," ","a","v","o","i","d"," ","s","p","e","a",
     "k","i","n","g"," ","w","i","t","h"," ","i","n","s","u","r","a","n","c","e"," ","a","d","j",
     "u","s","t","e","r","s"," ","b","e","f","o","r","e"," ","I"," ","a","d","v","i","s","e"," ",
     "y","o","u","."," ","I"," ","c","a","n"," ","g","u","i","d","e"," ","y","o","u"," ","o","n",
     " ","t","h","e"," ","n","e","x","t"," ","s","t","e","p","s"," ","r","i","g","h","t"," ","n",
     "o","w",".">>
\* source line 139: ['accident', 'injured', 'hurt', 'car', 'truck', 'motorcycle', 'slip', 'fall', 'crash']
pi_keywords ==
  << <<"a","c","c","i","d","e","n","t">>,
     <<"i","n","j","u","r","e","d">>,
     <<"h","u","r","t">>,
     <<"c","a","r">>,
     <<"t","r","u","c","k">>,
     <<"m","o","t","o","r","c","y","c","l","e">>,
     <<"s","l","i","p">>,
     <<"f","a","l","l">>,
     <<"c","r","a","s","h">> >>

\* source line 144: ['no fault', 'no-fault', 'insurance', 'practice', 'healthcare', 'provider', 'denied', 'benefits']
nf_keywords ==
  << <<"n","o"," ","f","a","u","l","t">>,
     <<"n","o","-","f","a","u","l","t">>,
     <<"i","n","s","u","r","a","n","c","e">>,
     <<"p","r","a","c","t","i","c","e">>,
     <<"h","e","a","l","t","h","c","a","r","e">>,
     <<"p","r","o","v","i","d","e","r">>,
     <<"d","e","n","i","e","d">>,
     <<"b","e","n","e","f","i","t","s">> >>

\* source line 149: ['divorce', 'criminal', 'family', 'real estate', 'bankruptcy', 'immigration']
outside_keywords ==
  << <<"d","i","v","o","r","c","e">>,
     <<"c","r","i","m","i","n","a","l">>,
     <<"f","a","m","i","l","y">>,
     <<"r","e","a","l"," ","e","s","t","a","t","e">>,
     <<"b","a","n","k","r","u","p","t","c","y">>,
     <<"i","m","m","i","g","r","a","t","i","o","n">> >>

\* source line 172: ['accident', 'injured', 'car', 'truck']
mentioned_words ==
  << <<"a","c","c","i","d","e","n","t">>,
     <<"i","n","j","u","r","e","d">>,
     <<"c","a","r">>,
     <<"t","r","u","c","k">> >>

\* source line 229: ['injured', 'hurt', 'pain', 'hospital', 'doctor', 'medical']
injury_words ==
  << <<"i","n","j","u","r","e","d">>,
     <<"h","u","r","t">>,
     <<"p","a","i","n">>,
     <<"h","o","s","p","i","t","a","l">>,
     <<"d","o","c","t","o","r">>,
     <<"m","e","d","i","c","a","l">> >>

\* source line 47-51: ['do i have a case', 'how much is my case worth', 'how much does it cost', 'how long will my case take', 'what should i do next']
FAQ_KEYS ==
  << <<"d","o"," ","i"," ","h","a","v","e"," ","a"," ","c","a","s","e">>,
     <<"h","o","w"," ","m","u","c","h"," ","i","s"," ","m","y"," ","c","a","s","e"," ","w","o","r","t","h">>,
     <<"h","o","w"," ","m","u","c","h"," ","d","o","e","s"," ","i","t"," ","c","o","s","t">>,
     <<"h","o","w"," ","l","o","n","g"," ","w","i","l","l"," ","m","y"," ","c","a","s","e"," ","t","a","k","e">>,
     <<"w","h","a","t"," ","s","h","o","u","l","d"," ","i"," ","d","o"," ","n","e","x","t">> >>

\* source line 73: ['accident', 'injured', 'hurt', 'pain']
empathy_words ==
  << <<"a","c","c","i","d","e","n","t">>,
     <<"i","n","j","u","r","e","d">>,
     <<"h","u","r","t">>,
     <<"p","a","i","n">> >>

\* source line 74-79: ["I'm so sorry to hear that happened to you", 'That sounds really difficult', 'I can only imagine how that must feel', 'That must have been scary']
empathy_phrases ==
  << <<"I","'","m"," ","s","o"," ","s","o","r","r","y"," ","t","o"," ","h","e","a","r"," ","t","h","a","t"," ","h","a","p","p","e","n","e","d"," ","t","o"," ","y","o","u">>,
     <<"T","h","a","t"," ","s","o","u","n","d","s"," ","r","e","a","l","l","y"," ","d","i","f","f","i","c","u","l","t">>,
     <<"I"," ","c","a","n"," ","o","n","l","y"," ","i","m","a","g","i","n","e"," ","h","o","w"," ","t","h","a","t"," ","m","u","s","t"," ","f","e","e","l">>,
     <<"T","h","a","t"," ","m","u","s","t"," ","h","a","v","e"," ","b","e","e","n"," ","s","c","a","r","y">> >>

\* source line 85: ['severe', 'serious', 'hospital', 'surgery']
severe_words ==
  << <<"s","e","v","e","r","e">>,
     <<"s","e","r","i","o","u","s">>,
     <<"h","o","s","p","i","t","a","l">>,
     <<"s","u","r","g","e","r","y">> >>

\* source line 101-105: ['you made the right call', "I'm here to help you through this", "we're going to take good care of you"]
encouraging_phrases ==
  << <<"y","o","u"," ","m","a","d","e"," ","t","h","e"," ","r","i","g","h","t"," ","c","a","l","l">>,
     <<"I","'","m"," ","h","e","r","e"," ","t","o"," ","h","e","l","p"," ","y","o","u"," ","t","h","r","o","u","g","h"," ","t","h","i","s">>,
     <<"w","e","'","r","e"," ","g","o","i","n","g"," ","t","o"," ","t","a","k","e"," ","g","o","o","d"," ","c","a","r","e"," ","o","f"," ","y","o","u">> >>

\* source line 305: ['accident', 'injured', 'scared', 'traumatic', 'hospital', 'emergency']
trauma_words ==
  << <<"a","c","c","i","d","e","n","t">>,
     <<"i","n","j","u","r","e","d">>,
     <<"s","c","a","r","e","d">>,
     <<"t","r","a","u","m","a","t","i","c">>,
     <<"h","o","s","p","i","t","a","l">>,
     <<"e","m","e","r","g","e","n","c","y">> >>

\* source line 309: ['frustrated', 'angry', 'denied', 'refused', 'unfair', 'ridiculous']
frustration_words ==
  << <<"f","r","u","s","t","r","a","t","e","d">>,
     <<"a","n","g","r","y">>,
     <<"d","e","n","i","e","d">>,
     <<"r","e","f","u","s","e","d">>,
     <<"u","n","f","a","i","r">>,
     <<"r","i","d","i","c","u","l","o","u","s">> >>

\* source line 313: ['confused', 'understand', 'explain', 'what', 'how', 'why']
confusion_words ==
  << <<"c","o","n","f","u","s","e","d">>,
     <<"u","n","d","e","r","s","t","a","n","d">>,
     <<"e","x","p","l","a","i","n">>,
     <<"w","h","a","t">>,
     <<"h","o","w">>,
     <<"w","h","y">> >>

\* source line 317: ['urgent', 'quickly', 'asap', 'immediately', 'deadline', 'statute']
urgency_words ==
  << <<"u","r","g","e","n","t">>,
     <<"q","u","i","c","k","l","y">>,
     <<"a","s","a","p">>,
     <<"i","m","m","e","d","i","a","t","e","l","y">>,
     <<"d","e","a","d","l","i","n","e">>,
     <<"s","t","a","t","u","t","e">> >>

\* source line 86: "Oh my gosh, that sounds awful I'm sorry. "
SEVERE_PREFIX ==
  <<"O","h"," ","m","y"," ","g","o","s","h",","," ","t","h","a","t"," ","s","o","u","n","d","s"," ","a","w","f","u","l"," ","I","'","m"," ","s","o","r","r","y","."," ">>

\* source line 290: 'I can hear this has been really difficult for you... '
TRAUMA_PREFIX ==
  <<"I"," ","c","a","n"," ","h","e","a","r"," ","t","h","i","s"," ","h","a","s"," ","b","e","e","n"," ","r","e","a","l","l","y"," ","d","i","f","f","i","c","u","l","t"," ","f","o","r"," ","y","o","u",".",".","."," ">>

\* source line 290: " Take your time, there's no rush."
TRAUMA_SUFFIX ==
  <<" ","T","a","k","e"," ","y","o","u","r"," ","t","i","m","e",","," ","t","h","e","r","e","'","s"," ","n","o"," ","r","u","s","h",".">>

\* source line 292: 'I understand your frustration... '
FRUSTRATION_PREFIX ==
  <<"I"," ","u","n","d","e","r","s","t","a","n","d"," ","y","o","u","r"," ","f","r","u","s","t","r","a","t","i","o","n",".",".","."," ">>

\* source line 292: " We're here to help make this easier for you."
FRUSTRATION_SUFFIX ==
  <<" ","W","e","'","r","e"," ","h","e","r","e"," ","t","o"," ","h","e","l","p"," ","m","a","k","e"," ","t","h","i","s"," ","e","a","s","i","e","r"," ","f","o","r"," ","y","o","u",".">>

\* source line 294: 'Let me help clarify this for you. '
CONFUSION_PREFIX ==
  <<"L","e","t"," ","m","e"," ","h","e","l","p"," ","c","l","a","r","i","f","y"," ","t","h","i","s"," ","f","o","r"," ","y","o","u","."," ">>

\* source line 294: ' Does that make more sense?'
CONFUSION_SUFFIX ==
  <<" ","D","o","e","s"," ","t","h","a","t"," ","m","a","k","e"," ","m","o","r","e"," ","s","e","n","s","e","?">>

\* source line 296: 'I understand this is urgent for you. '
URGENCY_PREFIX ==
  <<"I"," ","u","n","d","e","r","s","t","a","n","d"," ","t","h","i","s"," ","i","s"," ","u","r","g","e","n","t"," ","f","o","r"," ","y","o","u","."," ">>

\* source line 296: " We'll move as quickly as we can."
URGENCY_SUFFIX ==
  <<" ","W","e","'","l","l"," ","m","o","v","e"," ","a","s"," ","q","u","i","c","k","l","y"," ","a","s"," ","w","e"," ","c","a","n",".">>

\* an utterance of the caller: 'Car accident'
U_CAR ==
  <<"C","a","r"," ","a","c","c","i","d","e","n","t">>

\* an utterance of the caller: 'I got hurt'
U_HURT ==
  <<"I"," ","g","o","t"," ","h","u","r","t">>

\* an utterance of the caller: 'No-Fault claim'
U_NOFAULT ==
  <<"N","o","-","F","a","u","l","t"," ","c","l","a","i","m">>

\* an utterance of the caller: 'divorce'
U_DIVORCE ==
  <<"d","i","v","o","r","c","e">>

\* an utterance of the caller: 'hello'
U_HELLO ==
  <<"h","e","l","l","o">>

\* an utterance of the caller: 'Do I have a case'
U_FAQ ==
  <<"D","o"," ","I"," ","h","a","v","e"," ","a"," ","c","a","s","e">>

\* an utterance of the caller: 'how much does it cost, how much is my case worth'
U_FAQ2 ==
  <<"h","o","w"," ","m","u","c","h"," ","d","o","e","s"," ","i","t"," ","c","o","s","t",","," ","h","o","w"," ","m","u","c","h"," ","i","s"," ","m","y"," ","c","a","s","e"," ","w","o","r","t","h">>

\* an utterance of the caller: 'My accident claim was denied'
U_DENIED ==
  <<"M","y"," ","a","c","c","i","d","e","n","t"," ","c","l","a","i","m"," ","w","a","s"," ","d","e","n","i","e","d">>

\* an utterance of the caller: 'Family practice'
U_FAMILY ==
  <<"F","a","m","i","l","y"," ","p","r","a","c","t","i","c","e">>

\* TonaLawKnowledgeBase.FAQS in the dict's order: FAQ_KEYS[i] -> FAQ_ANSWERS[i]
FAQ_ANSWERS ==
  <<FAQ_ANSWER_1, FAQ_ANSWER_2, FAQ_ANSWER_3, FAQ_ANSWER_4, FAQ_ANSWER_5>>

----------------------------------------------------------------------------
(* ConversationFlow *)

\* ConversationFlow.states
initial_greeting == 0
identifying_caller == 1
collecting_info == 2
qualifying_personal_injury == 3
qualifying_no_fault == 4
qualified_ready_transfer == 5
not_qualified == 6
outside_practice_area == 7

get_initial_greeting == GREETING

\* (variant) the no-fault keywords are tried before the personal-injury ones
identify_case_type_no_fault_first(user_input) ==
  LET user_lower == lower(user_input) IN
  IF AnyIn(nf_keywords, user_lower) THEN "no_fault"
  ELSE IF AnyIn(pi_keywords, user_lower) THEN "personal_injury"
  ELSE IF AnyIn(outside_keywords, user_lower) THEN "outside_practice"
  ELSE "unknown"

\* identify_case_type: the first keyword list with a hit decides
identify_case_type(user_input) ==
  LET user_lower == lower(user_input) IN
  IF AnyIn(pi_keywords, user_lower) THEN "personal_injury"
  ELSE IF AnyIn(nf_keywords, user_lower) THEN "no_fault"
  ELSE IF AnyIn(outside_keywords, user_lower) THEN "outside_practice"
  ELSE "unknown"

\* (variant) the last FAQ key with a hit answers
faq_last_match(user_lower) ==
  IF \E i \in 1..Len(FAQ_KEYS) : Contains(user_lower, FAQ_KEYS[i])
  THEN FAQ_ANSWERS[CHOOSE i \in 1..Len(FAQ_KEYS) :
                     /\ Contains(user_lower, FAQ_KEYS[i])
                     /\ \A j \in (i + 1)..Len(FAQ_KEYS) : ~Contains(user_lower, FAQ_KEYS[j])]
  ELSE PLEASE_REPEAT

\* the loop over FAQS.items() and the default response
faq_or_default(user_lower) ==
  IF \E i \in 1..Len(FAQ_KEYS) : Contains(user_lower, FAQ_KEYS[i])
  THEN FAQ_ANSWERS[CHOOSE i \in 1..Len(FAQ_KEYS) :
                     /\ Contains(user_lower, FAQ_KEYS[i])
                     /\ \A j \in 1..(i - 1) : ~Contains(user_lower, FAQ_KEYS[j])]
  ELSE PLEASE_REPEAT

\* an outcome of the flow for one call: the state, the slots, the returned text
Step(state, info, ret) == [state |-> state, info |-> info, ret |-> ret]

\* (variant) the initial branch records the outside_practice label too
initial_greeting_step_records_outside(info, user_input, user_lower) ==
  LET case_type == identify_case_type(user_input) IN
  IF case_type = "personal_injury"
  THEN IF AnyIn(mentioned_words, user_lower)
       THEN Step(collecting_info, Set(info, "case_type", "personal_injury"),
                 CONFIRM_PERSONAL_INJURY)
       ELSE Step(identifying_caller, info, WHAT_KIND_OF_MATTER)
  ELSE IF case_type = "no_fault"
  THEN Step(collecting_info, Set(info, "case_type", "no_fault"), NO_FAULT_INTRO)
  ELSE IF case_type = "outside_practice"
  THEN Step(outside_practice_area, Set(info, "case_type", "outside_practice"),
            OUTSIDE_PRACTICE)
  ELSE Step(identifying_caller, info, WHAT_KIND_OF_MATTER)

\* the branch "if state == initial_greeting"
initial_greeting_step(info, user_input, user_lower) ==
  LET case_type == identify_case_type(user_input) IN
  IF case_type = "personal_injury"
  THEN IF AnyIn(mentioned_words, user_lower)
       THEN Step(collecting_info, Set(info, "case_type", "personal_injury"),
                 CONFIRM_PERSONAL_INJURY)
       ELSE Step(identifying_caller, info, WHAT_KIND_OF_MATTER)
  ELSE IF case_type = "no_fault"
  THEN Step(collecting_info, Set(info, "case_type", "no_fault"), NO_FAULT_INTRO)
  ELSE IF case_type = "outside_practice"
  THEN Step(outside_practice_area, info, OUTSIDE_PRACTICE)
  ELSE Step(identifying_caller, info, WHAT_KIND_OF_MATTER)

\* (variant) the phone confirmation is also written over the name
collecting_info_overwrites(info, user_input, user_lower) ==
  IF ~Has(info, "case_type")
  THEN LET case_type == identify_case_type(user_input)
           filled == Set(info, "case_type", case_type)
       IN IF case_type = "personal_injury"
          THEN Step(collecting_info, filled, ASK_NAME)
          ELSE IF case_type = "no_fault"
          THEN Step(collecting_info, filled, ASK_PRACTICE_NAME)
          ELSE IF case_type = "outside_practice"
          THEN Step(outside_practice_area, filled, OUTSIDE_PRACTICE)
          ELSE Step(collecting_info, filled, faq_or_default(user_lower))
  ELSE IF ~Has(info, "name")
  THEN Step(collecting_info, Set(info, "name", user_input), ASK_PHONE)
  ELSE IF ~Has(info, "phone_confirmed")
  THEN LET filled == Set(Set(info, "name", user_input),
                        "phone_confirmed", user_input) IN
       IF Get(info, "case_type") = "personal_injury"
       THEN Step(qualifying_personal_injury, filled, ASK_SITUATION)
       ELSE IF Get(info, "case_type") = "no_fault"
       THEN Step(qualifying_no_fault, filled, ASK_PROVIDER_TYPE)
       ELSE Step(collecting_info, filled, faq_or_default(user_lower))
  ELSE Step(collecting_info, info, faq_or_default(user_lower))

\* the branch "elif state == collecting_info"
collecting_info_step(info, user_input, user_lower) ==
  IF ~Has(info, "case_type")
  THEN LET case_type == identify_case_type(user_input)
           filled == Set(info, "case_type", case_type)
       IN IF case_type = "personal_injury"
          THEN Step(collecting_info, filled, ASK_NAME)
          ELSE IF case_type = "no_fault"
          THEN Step(collecting_info, filled, ASK_PRACTICE_NAME)
          ELSE IF case_type = "outside_practice"
          THEN Step(outside_practice_area, filled, OUTSIDE_PRACTICE)
          ELSE Step(collecting_info, filled, faq_or_default(user_lower))
  ELSE IF ~Has(info, "name")
  THEN Step(collecting_info, Set(info, "name", user_input), ASK_PHONE)
  ELSE IF ~Has(info, "phone_confirmed")
  THEN LET filled == Set(info, "phone_confirmed", user_input) IN
       IF Get(info, "case_type") = "personal_injury"
       THEN Step(qualifying_personal_injury, filled, ASK_SITUATION)
       ELSE IF Get(info, "case_type") = "no_fault"
       THEN Step(qualifying_no_fault, filled, ASK_PROVIDER_TYPE)
       ELSE Step(collecting_info, filled, faq_or_default(user_lower))
  ELSE Step(collecting_info, info, faq_or_default(user_lower))

\* (variant) where and when is asked before what happened
qualifying_personal_injury_where_first(info, user_input, user_lower) ==
  IF ~Has(info, "location_time")
  THEN Step(qualifying_personal_injury, Set(info, "location_time", user_input),
            ASK_SITUATION)
  ELSE IF ~Has(info, "situation")
  THEN Step(qualifying_personal_injury, Set(info, "situation", user_input),
            ASK_INJURIES)
  ELSE IF ~Has(info, "injuries")
  THEN IF AnyIn(injury_words, user_lower)
       THEN Step(qualified_ready_transfer, Set(info, "injuries", user_input),
                 TRANSFER_PERSONAL_INJURY)
       ELSE Step(not_qualified, Set(info, "injuries", user_input), NO_INJURIES)
  ELSE Step(qualifying_personal_injury, info, faq_or_default(user_lower))

\* the branch "elif state == qualifying_personal_injury"
qualifying_personal_injury_step(info, user_input, user_lower) ==
  IF ~Has(info, "situation")
  THEN Step(qualifying_personal_injury, Set(info, "situation", user_input),
            ASK_WHERE_WHEN)
  ELSE IF ~Has(info, "location_time")
  THEN Step(qualifying_personal_injury, Set(info, "location_time", user_input),
            ASK_INJURIES)
  ELSE IF ~Has(info, "injuries")
  THEN IF AnyIn(injury_words, user_lower)
       THEN Step(qualified_ready_transfer, Set(info, "injuries", user_input),
                 TRANSFER_PERSONAL_INJURY)
       ELSE Step(not_qualified, Set(info, "injuries", user_input), NO_INJURIES)
  ELSE Step(qualifying_personal_injury, info, faq_or_default(user_lower))

\* (variant) the no-fault qualification ends in not_qualified
qualifying_no_fault_rejects(info, user_input, user_lower) ==
  IF ~Has(info, "provider_type")
  THEN Step(qualifying_no_fault, Set(info, "provider_type", user_input),
            ASK_ACCEPTS_NO_FAULT)
  ELSE IF ~Has(info, "accepts_no_fault")
  THEN Step(qualifying_no_fault, Set(info, "accepts_no_fault", user_input),
            ASK_OUTSTANDING_AMOUNT)
  ELSE IF ~Has(info, "outstanding_amount")
  THEN Step(not_qualified, Set(info, "outstanding_amount", user_input),
            TRANSFER_NO_FAULT)
  ELSE Step(qualifying_no_fault, info, faq_or_default(user_lower))

\* the branch "elif state == qualifying_no_fault"
qualifying_no_fault_step(info, user_input, user_lower) ==
  IF ~Has(info, "provider_type")
  THEN Step(qualifying_no_fault, Set(info, "provider_type", user_input),
            ASK_ACCEPTS_NO_FAULT)
  ELSE IF ~Has(info, "accepts_no_fault")
  THEN Step(qualifying_no_fault, Set(info, "accepts_no_fault", user_input),
            ASK_OUTSTANDING_AMOUNT)
  ELSE IF ~Has(info, "outstanding_amount")
  THEN Step(qualified_ready_transfer, Set(info, "outstanding_amount", user_input),
            TRANSFER_NO_FAULT)
  ELSE Step(qualifying_no_fault, info, faq_or_default(user_lower))

\* (variant) the personal-injury qualification asks the no-fault questions
flow_step_crossed(state, info, user_input) ==
  LET user_lower == lower(user_input) IN
  IF state = initial_greeting
  THEN initial_greeting_step(info, user_input, user_lower)
  ELSE IF state = collecting_info
  THEN collecting_info_step(info, user_input, user_lower)
  ELSE IF state \in {qualifying_personal_injury, qualifying_no_fault}
  THEN qualifying_no_fault_step(info, user_input, user_lower)
  ELSE Step(state, info, faq_or_default(user_lower))

\* (variant) a question that hits an FAQ key is answered in every state,
\* before any slot is asked for
flow_step_faq_first(state, info, user_input) ==
  LET user_lower == lower(user_input) IN
  IF \E i \in 1..Len(FAQ_KEYS) : Contains(user_lower, FAQ_KEYS[i])
  THEN Step(state, info, faq_or_default(user_lower))
  ELSE IF state = initial_greeting
  THEN initial_greeting_step(info, user_input, user_lower)
  ELSE IF state = collecting_info
  THEN collecting_info_step(info, user_input, user_lower)
  ELSE IF state = qualifying_personal_injury
  THEN qualifying_personal_injury_step(info, user_input, user_lower)
  ELSE IF state = qualifying_no_fault
  THEN qualifying_no_fault_step(info, user_input, user_lower)
  ELSE Step(state, info, faq_or_default(user_lower))

\* the if/elif chain of get_next_response for a call in `state` with slots
\* `info`; a state without a branch falls through to the FAQs
flow_step(state, info, user_input) ==
  LET user_lower == lower(user_input) IN
  IF state = initial_greeting
  THEN initial_greeting_step(info, user_input, user_lower)
  ELSE IF state = collecting_info
  THEN collecting_info_step(info, user_input, user_lower)
  ELSE IF state = qualifying_personal_injury
  THEN qualifying_personal_injury_step(info, user_input, user_lower)
  ELSE IF state = qualifying_no_fault
  THEN qualifying_no_fault_step(info, user_input, user_lower)
  ELSE Step(state, info, faq_or_default(user_lower))

\* a first call for call_id creates its state and its empty slot record
NoSlots == <<>>
\* (variant) a first call starts from an empty slot registry
ensure_info_fresh(cs, ci, call_id) ==
  IF call_id \in DOMAIN cs THEN ci ELSE (call_id :> NoSlots)

ensure_state(cs, call_id) ==
  IF call_id \in DOMAIN cs THEN cs ELSE Put(cs, call_id, initial_greeting)
ensure_info(cs, ci, call_id) ==
  IF call_id \in DOMAIN cs THEN ci ELSE Put(ci, call_id, NoSlots)

\* (variant) the new state is stored at once, the slot record is not
store_step_state_only(cs0, ci0, call_id, step) ==
  [current_state |-> Put(cs0, call_id, step.state),
   collected_info |-> ci0,
   raised |-> FALSE, ret |-> step.ret]

\* get_next_response on the registries cs (current_state), ci (collected_info):
\* user_input.lower() raises on None, after the call's entries were created;
\* store_step: the state and the slots a branch leaves go into the registries
store_step(cs0, ci0, call_id, step) ==
  [current_state |-> Put(cs0, call_id, step.state),
   collected_info |-> Put(ci0, call_id, step.info),
   raised |-> FALSE, ret |-> step.ret]
get_next_response(cs, ci, user_input, call_id) ==
  LET cs0 == ensure_state(cs, call_id)
      ci0 == ensure_info(cs, ci, call_id)
  IN IF user_input.none
     THEN [current_state |-> cs0, collected_info |-> ci0,
           raised |-> TRUE, ret |-> <<>>]
     ELSE store_step(cs0, ci0, call_id,
                     flow_step(cs0[call_id], ci0[call_id], user_input.str))

----------------------------------------------------------------------------
(* GabbiPersonality and GabbiVoiceEngine: the enhancement passes *)

\* hash(context) of the running process: Python salts str hashes per process,
\* so the value is fixed within a process and any residue can come out
hash(seed, context) == seed + Len(context)

\* GabbiPersonality.add_empathy_markers
add_empathy_markers(text, context, seed) ==
  LET context_lower == lower(context) IN
  IF AnyIn(empathy_words, context_lower)
  THEN LET phrase_index == hash(seed, context) % Len(empathy_phrases)
           empathy == empathy_phrases[phrase_index + 1]
       IN empathy \o <<".", " ">> \o text
  ELSE IF AnyIn(severe_words, context_lower)
  THEN SEVERE_PREFIX \o text
  ELSE text

\* GabbiPersonality.add_conversational_markers
add_conversational_markers(text) ==
  LET paused == replace_pauses(text) IN
  IF Len(paused) > 80 /\ ~AnyIn(encouraging_phrases, lower(paused))
  THEN LET phrase_index == Len(paused) % Len(encouraging_phrases)
           encouragement == encouraging_phrases[phrase_index + 1]
       IN paused \o <<" ", "A", "n", "d", " ">> \o encouragement \o <<".">>
  ELSE paused

\* the texts the handler passes to enhance_with_voice_presence
Literals ==
  {GREETING, REMINDER, CONFIRM_PERSONAL_INJURY, WHAT_KIND_OF_MATTER, NO_FAULT_INTRO,
   OUTSIDE_PRACTICE, ASK_NAME, ASK_PRACTICE_NAME, ASK_PHONE, ASK_SITUATION,
   ASK_PROVIDER_TYPE, ASK_WHERE_WHEN, ASK_INJURIES, TRANSFER_PERSONAL_INJURY,
   NO_INJURIES, ASK_ACCEPTS_NO_FAULT, ASK_OUTSTANDING_AMOUNT, TRANSFER_NO_FAULT,
   PLEASE_REPEAT, FAQ_ANSWER_1, FAQ_ANSWER_2, FAQ_ANSWER_3, FAQ_ANSWER_4,
   FAQ_ANSWER_5}

\* add_conversational_markers on those texts, computed once
MarkedLiterals == [t \in Literals |-> add_conversational_markers(t)]
lookup(table, text) ==
  IF text \in DOMAIN table THEN table[text] ELSE add_conversational_markers(text)
Marked(text) == lookup(MarkedLiterals, text)

\* GabbiVoiceEngine.detect_emotions: the list of the categories with a hit
detect_emotions(content) ==
  LET content_lower == lower(content) IN
     (IF AnyIn(trauma_words, content_lower) THEN <<"trauma">> ELSE <<>>)
  \o (IF AnyIn(frustration_words, content_lower) THEN <<"frustration">> ELSE <<>>)
  \o (IF AnyIn(confusion_words, content_lower) THEN <<"confusion">> ELSE <<>>)
  \o (IF AnyIn(urgency_words, content_lower) THEN <<"urgency">> ELSE <<>>)

\* "x in emotions"
InList(x, list) == \E i \in 1..Len(list) : list[i] = x

\* msg.get('content', ''): an entry that is no dict has no .get
get_content(msg) ==
  IF msg.shape = "not_dict" THEN [raised |-> TRUE, value |-> None]
  ELSE IF msg.shape = "no_content" THEN [raised |-> FALSE, value |-> Str(<<>>)]
  ELSE IF msg.shape = "null_content" THEN [raised |-> FALSE, value |-> None]
  ELSE [raised |-> FALSE, value |-> Str(msg.content)]

\* ' '.join([msg.get('content', '') for msg in context[-2:]]): raises when an
\* entry has no .get or when join meets a content that is not a string
recent_context(context) ==
  LET recent == LastN(context, 2)
      got == [i \in 1..Len(recent) |-> get_content(recent[i])]
  IN IF \E i \in 1..Len(got) : got[i].raised \/ got[i].value.none
     THEN [raised |-> TRUE, str |-> <<>>]
     ELSE [raised |-> FALSE, str |-> join([i \in 1..Len(got) |-> got[i].value.str])]

\* GabbiVoiceEngine.add_emotional_intelligence, for a context that is not empty
add_emotional_intelligence(text, recent_content) ==
  LET emotions == detect_emotions(recent_content) IN
  IF InList("trauma", emotions) THEN TRAUMA_PREFIX \o text \o TRAUMA_SUFFIX
  ELSE IF InList("frustration", emotions)
  THEN FRUSTRATION_PREFIX \o text \o FRUSTRATION_SUFFIX
  ELSE IF InList("confusion", emotions)
  THEN CONFUSION_PREFIX \o text \o CONFUSION_SUFFIX
  ELSE IF InList("urgency", emotions)
  THEN URGENCY_PREFIX \o text \o URGENCY_SUFFIX
  ELSE text

\* GabbiVoiceEngine.enhance_with_voice_presence; an empty (or no) context
\* skips the empathy and the emotion pass (enhance_marked: the passes after
\* add_conversational_markers; with_context: the two that read the context)
with_context(enhanced_text, recent, seed) ==
  IF recent.raised THEN [raised |-> TRUE, text |-> <<>>]
  ELSE [raised |-> FALSE,
        text |-> add_emotional_intelligence(
                   add_empathy_markers(enhanced_text, recent.str, seed), recent.str)]
enhance_marked(enhanced_text, context, seed) ==
  IF Len(context) = 0 THEN [raised |-> FALSE, text |-> enhanced_text]
  ELSE with_context(enhanced_text, recent_context(context), seed)
enhance_with_voice_presence(text, context, seed) ==
  enhance_marked(Marked(text), context, seed)

\* the reply dict of process_retell_request
Reply(response_id, content) ==
  [response_id |-> response_id, content |-> content,
   content_complete |-> TRUE, end_call |-> FALSE]

----------------------------------------------------------------------------
(* GabbiTonaLawAgent.process_retell_request *)

\* an entry of active_calls (start_time left out)
NewCall == [client_type |-> "unknown", qualification_status |-> "in_progress"]

\* the outcome of handling one request: the four registries, whether an
\* exception left the handler, and the returned replies (<<>> for None)
Outcome(ac, cm, cs, ci, raised, ret) ==
  [active_calls |-> ac, conversation_memory |-> cm, current_state |-> cs,
   collected_info |-> ci, raised |-> raised, ret |-> ret]

\* (variant) the whole transcript is kept as the window
update_only_whole(request, call_id, ac, cm, cs, ci) ==
  Outcome(ac,
          IF Len(request.transcript) > 0
          THEN Put(cm, call_id, request.transcript) ELSE cm,
          cs, ci, FALSE, <<>>)

\* the branch "if interaction_type == update_only"
update_only(request, call_id, ac, cm, cs, ci) ==
  Outcome(ac,
          IF Len(request.transcript) > 0
          THEN Put(cm, call_id, LastN(request.transcript, 10)) ELSE cm,
          cs, ci, FALSE, <<>>)

\* the branch "elif interaction_type == response_required"; generate_response:
\* the base response of the flow, then its enhancement; respond: the reply, or
\* the exception that either of the two raised (the flow has then advanced)
respond(request, ac, cm, base_response, enhanced_response) ==
  IF base_response.raised \/ enhanced_response.raised
  THEN Outcome(ac, cm, base_response.current_state, base_response.collected_info,
               TRUE, <<>>)
  ELSE Outcome(ac, cm, base_response.current_state, base_response.collected_info,
               FALSE, <<Reply(request.response_id, enhanced_response.text)>>)
generate_response(request, ac, cm, base_response, conversation_history, seed) ==
  respond(request, ac, cm, base_response,
          enhance_with_voice_presence(base_response.ret, conversation_history, seed))

\* (variant) an empty transcript is taken as an empty utterance
response_required_empty_utterance(request, call_id, ac, cm, cs, ci, seed) ==
  LET transcript == request.transcript IN
  IF Len(transcript) > 0
  THEN LET last_message == transcript[Len(transcript)]
           user_input == get_content(last_message)
       IN IF user_input.raised THEN Outcome(ac, cm, cs, ci, TRUE, <<>>)
          ELSE generate_response(request, ac, cm,
                                 get_next_response(cs, ci, user_input.value, call_id),
                                 SubSeq(transcript, 1, Len(transcript) - 1), seed)
  ELSE generate_response(request, ac, cm,
                         get_next_response(cs, ci, Str(<<>>), call_id), <<>>, seed)

response_required(request, call_id, ac, cm, cs, ci, seed) ==
  LET transcript == request.transcript IN
  IF Len(transcript) > 0
  THEN LET last_message == transcript[Len(transcript)]
           user_input == get_content(last_message)
       IN IF user_input.raised THEN Outcome(ac, cm, cs, ci, TRUE, <<>>)
          ELSE generate_response(request, ac, cm,
                                 get_next_response(cs, ci, user_input.value, call_id),
                                 SubSeq(transcript, 1, Len(transcript) - 1), seed)
  ELSE Outcome(ac, cm, cs, ci, FALSE,
               <<Reply(request.response_id,
                       enhance_with_voice_presence(get_initial_greeting, <<>>, seed).text)>>)

\* the branch "elif interaction_type == reminder_required"
remind(request, ac, cm, cs, ci, enhanced_reminder) ==
  IF enhanced_reminder.raised THEN Outcome(ac, cm, cs, ci, TRUE, <<>>)
  ELSE Outcome(ac, cm, cs, ci, FALSE,
               <<Reply(request.response_id, enhanced_reminder.text)>>)
reminder_required(request, call_id, ac, cm, cs, ci, seed) ==
  remind(request, ac, cm, cs, ci,
         enhance_with_voice_presence(REMINDER, request.transcript, seed))

\* (variant) an interaction_type without a branch syncs the window
other_interaction_syncs(request, call_id, ac, cm, cs, ci) ==
  Outcome(ac,
          IF Len(request.transcript) > 0
          THEN Put(cm, call_id, LastN(request.transcript, 10)) ELSE cm,
          cs, ci, FALSE, <<>>)

\* the final "return None" of an interaction_type without a branch
other_interaction(request, call_id, ac, cm, cs, ci) ==
  Outcome(ac, cm, cs, ci, FALSE, <<>>)

\* "Initialize call tracking": an entry for a call_id that has none
track_call(ac, call_id) ==
  IF call_id \in DOMAIN ac THEN ac ELSE Put(ac, call_id, NewCall)

\* process_retell_request: call tracking first, then the branch of the type
process_retell_request(request, call_id, ac, cm, cs, ci, seed) ==
  LET ac0 == track_call(ac, call_id) IN
  IF request.interaction_type = "update_only"
  THEN update_only(request, call_id, ac0, cm, cs, ci)
  ELSE IF request.interaction_type = "response_required"
  THEN response_required(request, call_id, ac0, cm, cs, ci, seed)
  ELSE IF request.interaction_type = "reminder_required"
  THEN reminder_required(request, call_id, ac0, cm, cs, ci, seed)
  ELSE other_interaction(request, call_id, ac0, cm, cs, ci)

----------------------------------------------------------------------------
(* websocket_endpoint: one connection's receive loop *)

\* connections and call ids are numbered; NoCall: a closed connection has none
Conns == {1, 2}
CallIds == {1, 2}
NoCall == 0

\* a received payload: text that is no JSON ("invalid"), JSON that is no
\* object ("array"), or an object with the three keys the handler reads
Payload(json, interaction_type, transcript, response_id) ==
  [response_id |-> response_id, transcript |-> transcript,
   interaction_type |-> interaction_type, json |-> json]
Request(interaction_type, transcript, response_id) ==
  Payload("object", interaction_type, transcript, response_id)
NotJson == Payload("invalid", "", <<>>, 0)
JsonArray == Payload("array", "", <<>>, 0)
NoData == Payload("none", "", <<>>, 0)

\* the greeting sent right after accept(), with response_id 0
greeting_response(seed) ==
  Reply(0, enhance_with_voice_presence(get_initial_greeting, <<>>, seed).text)

\* the body of the inner try for one payload: json.loads, request.get (which
\* a JSON value that is no object does not have), process_retell_request
inner_try(out) == [out |-> out, caught |-> IF out.raised THEN "Exception" ELSE "none"]
handle_payload(payload, call_id, ac, cm, cs, ci, seed) ==
  IF payload.json = "invalid"
  THEN [out |-> Outcome(ac, cm, cs, ci, TRUE, <<>>), caught |-> "JSONDecodeError"]
  ELSE IF payload.json # "object"
  THEN [out |-> Outcome(ac, cm, cs, ci, TRUE, <<>>), caught |-> "Exception"]
  ELSE inner_try(process_retell_request(payload, call_id, ac, cm, cs, ci, seed))

\* (variant) an except clause that leaves the loop
next_pc_break(exception) == IF exception = "none" THEN "loop_end" ELSE "closed"

\* where the loop is after the inner try: both except clauses `continue`
next_pc(exception) == "loop_end"

Init ==
  /\ hashseed \in 0..MaxSeed
  /\ current_state = [c \in {} |-> 0]
  /\ collected_info = [c \in {} |-> NoSlots]
  /\ active_calls = [c \in {} |-> NewCall]
  /\ conversation_memory = [c \in {} |-> <<>>]
  /\ pc = [k \in Conns |-> "closed"]
  /\ call_of = [k \in Conns |-> NoCall]
  /\ data = [k \in Conns |-> NoData]
  /\ caught = [k \in Conns |-> "none"]
  /\ response_data = [k \in Conns |-> <<>>]

\* a client connects to /llm-websocket/{call_id}: accept, send the greeting
Connect(k, call_id) ==
  /\ pc[k] = "closed"
  /\ pc' = [pc EXCEPT ![k] = "greeted"]
  /\ call_of' = [call_of EXCEPT ![k] = call_id]
  /\ response_data' = [response_data EXCEPT ![k] = <<greeting_response(hashseed)>>]
  /\ UNCHANGED <<hashseed, registries, data, caught>>

\* receive_text returns `payload`: one iteration of the loop up to send_text
\* (iteration: what the inner try with outcome h leaves behind)
iteration(k, h) ==
  /\ active_calls' = h.out.active_calls
  /\ conversation_memory' = h.out.conversation_memory
  /\ current_state' = h.out.current_state
  /\ collected_info' = h.out.collected_info
  /\ caught' = [caught EXCEPT ![k] = h.caught]
  /\ response_data' = [response_data EXCEPT ![k] = h.out.ret]
  /\ pc' = [pc EXCEPT ![k] = next_pc(h.caught)]
Receive(k, payload) ==
  /\ pc[k] = "receive"
  /\ iteration(k, handle_payload(payload, call_of[k], active_calls, conversation_memory,
                                 current_state, collected_info, hashseed))
  /\ data' = [data EXCEPT ![k] = payload]
  /\ UNCHANGED <<hashseed, call_of>>

\* the message, if any, is with the transport; the loop awaits the next one
NextIteration(k) ==
  /\ pc[k] \in {"greeted", "loop_end"}
  /\ pc' = [pc EXCEPT ![k] = "receive"]
  /\ data' = [data EXCEPT ![k] = NoData]
  /\ response_data' = [response_data EXCEPT ![k] = <<>>]
  /\ UNCHANGED <<hashseed, registries, call_of, caught>>

\* receive_text raises WebSocketDisconnect: the finally clause cleans up
Disconnect(k) ==
  /\ pc[k] = "receive"
  /\ conversation_memory' = Pop(conversation_memory, call_of[k])
  /\ active_calls' = Pop(active_calls, call_of[k])
  /\ pc' = [pc EXCEPT ![k] = "closed"]
  /\ call_of' = [call_of EXCEPT ![k] = NoCall]
  /\ caught' = [caught EXCEPT ![k] = "none"]
  /\ UNCHANGED <<hashseed, current_state, collected_info, data, response_data>>

----------------------------------------------------------------------------
(* The transport's inputs. *)
\* (record fields are written in the order TLC sorts them into, so that a
\* payload shared by the workers is never rearranged while it is read)

Msg(role, content) == [content |-> content, shape |-> "msg", role |-> role]
NO_CONTENT == [content |-> <<>>, shape |-> "no_content", role |-> "user"]
NULL_CONTENT == [content |-> <<>>, shape |-> "null_content", role |-> "user"]
NOT_DICT == [content |-> <<>>, shape |-> "not_dict", role |-> ""]
Malformed == {NO_CONTENT, NULL_CONTENT, NOT_DICT}

\* n older entries, told apart by their position
Pad(n) == [i \in 1..n |-> Msg("agent", [j \in 1..i |-> "z"])]

InteractionTypes ==
  {"update_only", "response_required", "reminder_required", "ping_pong"}
ResponseIds == 1..MaxResponseId

\* the free-text slot values a call holds
SlotTexts(call_id) ==
  IF call_id \in DOMAIN collected_info
  THEN LET info == collected_info[call_id] IN
       {info[i][2] : i \in {j \in 1..Len(info) : info[j][1] # "case_type"}}
  ELSE {}

\* the caller stays within MaxVocab distinct utterances while slots fill
WithinVocab(call_id, payload) ==
  IF /\ payload.json = "object"
     /\ payload.interaction_type = "response_required"
     /\ Len(payload.transcript) > 0
  THEN LET last_message == payload.transcript[Len(payload.transcript)] IN
       IF last_message.shape = "msg"
       THEN Cardinality(SlotTexts(call_id) \cup {last_message.content}) <= MaxVocab
       ELSE TRUE
  ELSE TRUE

\* Spec: one connection, two utterances, every shape of payload and entry
SpecTranscripts ==
  {<<>>, <<Msg("user", U_CAR)>>, <<Msg("user", U_HURT)>>,
   <<Msg("user", U_CAR), Msg("user", U_HURT)>>}
  \cup {<<x>> : x \in Malformed}
  \cup {<<x, Msg("user", U_CAR)>> : x \in {NULL_CONTENT, NOT_DICT}}
SpecPayloads ==
  {NotJson, JsonArray}
  \cup {Request("response_required", tr, r) : tr \in SpecTranscripts, r \in ResponseIds}
  \cup {Request("reminder_required", tr, r) :
          tr \in {<<>>, <<Msg("user", U_CAR)>>, <<NULL_CONTENT>>, <<NOT_DICT>>},
          r \in ResponseIds}
  \cup {Request(t, tr, 1) : t \in {"update_only", "ping_pong"},
                            tr \in {<<>>, <<Msg("user", U_CAR)>>}}

Next ==
  \E k \in {1} :
    \/ Connect(k, 1)
    \/ \E p \in SpecPayloads : WithinVocab(call_of[k], p) /\ Receive(k, p)
    \/ NextIteration(k)
    \/ Disconnect(k)

Spec == Init /\ [][Next]_vars

\* SpecFlow: one connection, well-formed payloads, the utterances that take
\* every branch of the flow
FlowUtterances == {U_CAR, U_HURT, U_NOFAULT, U_DIVORCE, U_FAQ2}
FlowPayloads ==
  {Request("response_required", <<Msg("user", u)>>, 1) : u \in FlowUtterances}
  \cup {Request(t, <<>>, 1) : t \in InteractionTypes}
  \cup {Request("reminder_required", <<Msg("user", U_CAR)>>, 1), NotJson}

NextFlow ==
  \E k \in {1} :
    \/ Connect(k, 1)
    \/ \E p \in FlowPayloads : WithinVocab(call_of[k], p) /\ Receive(k, p)
    \/ NextIteration(k)
    \/ Disconnect(k)

SpecFlow == Init /\ [][NextFlow]_vars

\* SpecWindow: one connection, transcripts shorter and longer than the window
WindowTranscripts ==
  {<<>>, <<Msg("user", U_CAR)>>, <<NOT_DICT, Msg("user", U_HELLO)>>}
  \cup {Pad(n) \o <<Msg("user", U_CAR)>> : n \in (MaxPad - 1)..MaxPad}
  \cup {Pad(MaxPad) \o <<Msg("user", U_CAR), Msg("user", U_HELLO)>>}
WindowPayloads ==
  {Request("update_only", tr, 1) : tr \in WindowTranscripts}
  \cup {Request("response_required", <<Msg("user", u)>>, 1) : u \in {U_CAR, U_HURT}}
  \cup {Request("reminder_required", <<>>, 1), Request("ping_pong", <<>>, 1), NotJson}

NextWindow ==
  \E k \in {1} :
    \/ Connect(k, 1)
    \/ \E p \in WindowPayloads : WithinVocab(call_of[k], p) /\ Receive(k, p)
    \/ NextIteration(k)
    \/ Disconnect(k)

SpecWindow == Init /\ [][NextWindow]_vars

----------------------------------------------------------------------------
(* Properties of the connection handler and of the dialogue flow. *)

\* the call has a connection that is not closed
Open(c) == \E k \in Conns : pc[k] # "closed" /\ call_of[k] = c
\* d is a JSON object whose interaction_type is `type`
IsRequest(d, type) == d.json = "object" /\ d.interaction_type = type
\* d is a JSON object whose interaction_type has no branch in the handler
IsUnknown(d) ==
  /\ d.json = "object"
  /\ d.interaction_type \notin {"update_only", "response_required", "reminder_required"}
\* connection k has just handled the payload data'[k]
Handled(k) == pc[k] = "receive" /\ pc'[k] = "loop_end"
\* the one reply that answers request d
IsReplyTo(replies, d) ==
  /\ Len(replies) = 1
  /\ replies[1].response_id = d.response_id
  /\ replies[1].content_complete = TRUE
  /\ replies[1].end_call = FALSE
\* the dialogue state of a call; a call without an entry is at the start
StateOf(cs, c) == IF c \in DOMAIN cs THEN cs[c] ELSE initial_greeting
\* the keys of a slot record
Keys(info) == {info[i][1] : i \in 1..Len(info)}

\* C1: once the connection of a call-id is closed, none of the four
\* registries holds an entry for that call-id (so a later event for it starts
\* a fresh session).  The cleanup pops conversation_memory and active_calls
\* only: this predicate is violated.
C1_ReleasedAfterDisconnect ==
  \A c \in CallIds :
    ~Open(c) =>
      /\ c \notin DOMAIN current_state
      /\ c \notin DOMAIN collected_info
      /\ c \notin DOMAIN conversation_memory
      /\ c \notin DOMAIN active_calls

\* C2: every handled response_required event that is a JSON object has
\* exactly one reply, with the event's response_id, content_complete = true
\* and end_call = false.  A transcript whose last entry has a null content,
\* or is no object, gets no reply: this predicate is violated.
C2_ExactlyOneReply ==
  \A k \in Conns :
    (pc[k] = "loop_end" /\ IsRequest(data[k], "response_required")) =>
      IsReplyTo(response_data[k], data[k])

\* C3 as stated: an event whose interaction_type has no branch gets no reply
\* and leaves all four registries as they were, also as the first event of
\* its call-id.  The handler creates the call's active_calls entry before it
\* looks at the type: this property is violated.
C3_UnknownTypeMutatesNothing ==
  [][\A k \in Conns :
       (Handled(k) /\ IsUnknown(data'[k])) =>
         /\ response_data'[k] = <<>>
         /\ UNCHANGED registries]_vars

\* C3: an event whose interaction_type has no branch gets no reply and
\* leaves the window, the dialogue state and the slot record of every call
\* as they were; the call metadata is unchanged too, except that the entry
\* of the call-id is created when the call-id has none.
C3_UnknownTypeOnlyTracksCall ==
  [][\A k \in Conns :
       (Handled(k) /\ IsUnknown(data'[k])) =>
         /\ response_data'[k] = <<>>
         /\ caught'[k] = "none"
         /\ UNCHANGED <<conversation_memory, current_state, collected_info>>
         /\ DOMAIN active_calls' = DOMAIN active_calls \cup {call_of[k]}
         /\ \A c \in DOMAIN active_calls : active_calls'[c] = active_calls[c]
         /\ call_of[k] \notin DOMAIN active_calls =>
              active_calls'[call_of[k]] =
                [client_type |-> "unknown", qualification_status |-> "in_progress"]]_vars

\* an event without a branch was the first event of its call: the metadata
\* entry exists, nothing else does, and nothing was sent
C3_FirstEventUnknown ==
  \E k \in Conns :
    /\ pc[k] = "loop_end"
    /\ IsUnknown(data[k])
    /\ Len(data[k].transcript) > 0
    /\ response_data[k] = <<>>
    /\ call_of[k] \in DOMAIN active_calls
    /\ call_of[k] \notin DOMAIN conversation_memory
    /\ call_of[k] \notin DOMAIN current_state

\* C4: an update_only event gets no reply; with a non-empty transcript T the
\* call's window becomes the last min(10, |T|) entries of T in their order,
\* with an empty one the windows stay; current_state and collected_info are
\* unchanged.
C4_UpdateOnlyWindow ==
  [][\A k \in Conns :
       (Handled(k) /\ IsRequest(data'[k], "update_only")) =>
         LET T == data'[k].transcript
             c == call_of[k]
             n == IF Len(T) < 10 THEN Len(T) ELSE 10
         IN /\ response_data'[k] = <<>>
            /\ UNCHANGED <<current_state, collected_info>>
            /\ Len(T) = 0 => UNCHANGED conversation_memory
            /\ Len(T) > 0 =>
                 /\ c \in DOMAIN conversation_memory'
                 /\ Len(conversation_memory'[c]) = n
                 /\ \A i \in 1..n : conversation_memory'[c][i] = T[Len(T) - n + i]]_vars

\* an update_only event with more than 10 entries was handled for a call in
\* slot collection: the window holds 10 entries, the oldest were evicted
C4_OlderEntriesEvicted ==
  \E k \in Conns :
    /\ pc[k] = "loop_end"
    /\ IsRequest(data[k], "update_only")
    /\ Len(data[k].transcript) > 10
    /\ call_of[k] \in DOMAIN conversation_memory
    /\ Len(conversation_memory[call_of[k]]) = 10
    /\ conversation_memory[call_of[k]][1] # data[k].transcript[1]
    /\ StateOf(current_state, call_of[k]) = collecting_info

\* every transcript entry of d is an object with a string content
WellFormed(d) == \A i \in 1..Len(d.transcript) : d.transcript[i].shape = "msg"

\* C5: an event that cannot be handled (no JSON, or an exception in the
\* handler) sends nothing, leaves the loop at its end and never closed, and
\* keeps every registry entry there was; from the end of an iteration the
\* loop only goes on to receive; and the well-formed response_required event
\* that follows a failed event on the connection is answered by one reply.
C5_FailureKeepsLoop ==
  [][\A k \in Conns :
       /\ (pc[k] = "receive" /\ pc'[k] # "receive" /\ caught'[k] # "none") =>
            /\ pc'[k] = "loop_end"
            /\ response_data'[k] = <<>>
            /\ DOMAIN active_calls \subseteq DOMAIN active_calls'
            /\ DOMAIN conversation_memory \subseteq DOMAIN conversation_memory'
            /\ DOMAIN current_state \subseteq DOMAIN current_state'
            /\ DOMAIN collected_info \subseteq DOMAIN collected_info'
            /\ data'[k].json # "object" => UNCHANGED registries
       /\ (pc[k] = "loop_end" /\ pc'[k] # "loop_end") => pc'[k] = "receive"
       /\ (Handled(k) /\ caught[k] # "none"
             /\ IsRequest(data'[k], "response_required") /\ WellFormed(data'[k])) =>
            /\ caught'[k] = "none"
            /\ IsReplyTo(response_data'[k], data'[k])]_vars

\* the handler raised on the last event of a call whose session exists, and
\* the connection is receiving again
C5_ReceivingAfterException ==
  \E k \in Conns :
    /\ pc[k] = "receive"
    /\ caught[k] = "Exception"
    /\ call_of[k] \in DOMAIN active_calls
    /\ call_of[k] \in DOMAIN current_state

\* C6: a session in identifying_caller that receives an utterance which
\* classifies to a track advances: with "car accident" to collecting_info with
\* case_type personal_injury, with a no-fault utterance to collecting_info,
\* with an outside-practice utterance to outside_practice_area.
\* get_next_response has no branch for identifying_caller, the session stays
\* there: this property is violated.
C6_IdentifyingCallerAdvances ==
  [][\A k \in Conns :
       LET d == data'[k]
           c == call_of[k]
       IN (/\ Handled(k)
           /\ IsRequest(d, "response_required") /\ WellFormed(d)
           /\ Len(d.transcript) > 0
           /\ c \in DOMAIN current_state
           /\ current_state[c] = identifying_caller) =>
            LET user_input == d.transcript[Len(d.transcript)].content
                case_type == identify_case_type(user_input)
            IN /\ Contains(lower(user_input), lower(U_CAR)) =>
                    /\ current_state'[c] = collecting_info
                    /\ Has(collected_info'[c], "case_type")
                    /\ Get(collected_info'[c], "case_type") = "personal_injury"
               /\ case_type = "no_fault" => current_state'[c] = collecting_info
               /\ case_type = "outside_practice" =>
                    current_state'[c] = outside_practice_area]_vars

\* the edges the flow is said to have
ListedEdges ==
  {<<initial_greeting, identifying_caller>>,
   <<identifying_caller, collecting_info>>,
   <<identifying_caller, outside_practice_area>>,
   <<collecting_info, qualifying_personal_injury>>,
   <<collecting_info, qualifying_no_fault>>,
   <<qualifying_personal_injury, qualified_ready_transfer>>,
   <<qualifying_personal_injury, not_qualified>>,
   <<qualifying_no_fault, qualified_ready_transfer>>}
\* the edges a first utterance that names the matter takes
FirstUtteranceEdges ==
  {<<initial_greeting, collecting_info>>,
   <<initial_greeting, outside_practice_area>>}

\* C7 as stated: in every step the dialogue state of a call stays or changes
\* along a listed edge.  A first utterance that names the matter takes the
\* session from initial_greeting straight to collecting_info or to
\* outside_practice_area: this property is violated.
C7_ListedEdgesOnly ==
  [][\A c \in CallIds :
       LET from == StateOf(current_state, c)
           to == StateOf(current_state', c)
       IN from = to \/ <<from, to>> \in ListedEdges]_vars

\* C7: in every step the dialogue state of a call stays or changes along a
\* listed edge or along initial_greeting -> collecting_info or
\* initial_greeting -> outside_practice_area; no step moves a session
\* backwards.
C7_EdgesOfTheFlow ==
  [][\A c \in CallIds :
       LET from == StateOf(current_state, c)
           to == StateOf(current_state', c)
       IN from = to \/ <<from, to>> \in ListedEdges \cup FirstUtteranceEdges]_vars

\* the first utterance of a call named a personal injury matter: the session
\* is in collecting_info and holds the case_type only
C7_StraightToCollecting ==
  \E k \in Conns :
    /\ pc[k] = "loop_end"
    /\ IsRequest(data[k], "response_required")
    /\ StateOf(current_state, call_of[k]) = collecting_info
    /\ call_of[k] \in DOMAIN collected_info
    /\ collected_info[call_of[k]] = <<<<"case_type", "personal_injury">>>>

\* the states without a branch that a session does not leave
Terminal == {qualified_ready_transfer, not_qualified, outside_practice_area}

\* the FAQ keys a lower-cased utterance contains, by their place in FAQS, and
\* the answer of the first of them (the request to repeat when there is none)
FaqHits(user_lower) == {i \in 1..Len(FAQ_KEYS) : Contains(user_lower, FAQ_KEYS[i])}
FirstAnswer(hits) ==
  IF hits = {} THEN PLEASE_REPEAT
  ELSE FAQ_ANSWERS[CHOOSE i \in hits : \A j \in hits : i <= j]

\* C8: no step changes the dialogue state or the slot record of a session in
\* qualified_ready_transfer, not_qualified or outside_practice_area, and a
\* response_required event with an utterance for it is answered by the
\* (enhanced) answer of the first key of FAQS that the lower-cased utterance
\* contains, or by the (enhanced) request to repeat when it contains none.
\* (T, user_lower and answer each range over the one value they name.)
C8_TerminalAnswersFaq ==
  [][\A c \in DOMAIN current_state :
       current_state[c] \in Terminal =>
         /\ c \in DOMAIN current_state' /\ current_state'[c] = current_state[c]
         /\ c \in DOMAIN collected_info' /\ collected_info'[c] = collected_info[c]
         /\ \A k \in Conns :
              (/\ Handled(k) /\ call_of[k] = c
               /\ IsRequest(data'[k], "response_required") /\ WellFormed(data'[k])
               /\ Len(data'[k].transcript) > 0) =>
                \A T \in {data'[k].transcript} :
                \A user_lower \in {lower(T[Len(T)].content)} :
                \A answer \in {FirstAnswer(FaqHits(user_lower))} :
                  /\ IsReplyTo(response_data'[k], data'[k])
                  /\ response_data'[k][1].content =
                       enhance_with_voice_presence(
                         answer, SubSeq(T, 1, Len(T) - 1), hashseed).text]_vars

\* a transferred session was asked two FAQs at once and got the answer of
\* the one that comes first in FAQS, though it comes second in the utterance
C8_TransferredAnswersFirstFaq ==
  \E k \in Conns :
    /\ pc[k] = "loop_end"
    /\ IsRequest(data[k], "response_required")
    /\ data[k].transcript = <<Msg("user", U_FAQ2)>>
    /\ StateOf(current_state, call_of[k]) = qualified_ready_transfer
    /\ Len(response_data[k]) = 1
    /\ response_data[k][1].content =
         enhance_with_voice_presence(FAQ_ANSWER_2, <<>>, hashseed).text

\* C9: in every step, every call keeps its slot record, every filled slot
\* key stays filled, and the value under it stays the value it had.
C9_SlotsOnlyGrow ==
  [][\A c \in DOMAIN collected_info :
       /\ c \in DOMAIN collected_info'
       /\ \A i \in 1..Len(collected_info[c]) :
            LET key == collected_info[c][i][1] IN
            /\ Has(collected_info'[c], key)
            /\ Get(collected_info'[c], key) = collected_info[c][i][2]]_vars

\* the name was given, then a different utterance confirmed the phone: both
\* slots are filled and the name is still the first utterance
C9_NameKeptAfterPhone ==
  \E c \in DOMAIN collected_info :
    LET info == collected_info[c] IN
    /\ Has(info, "name") /\ Has(info, "phone_confirmed")
    /\ Get(info, "name") # Get(info, "phone_confirmed")

\* the slot keys of either track, and the slot keys of each track
CommonSlots == {"case_type", "name", "phone_confirmed"}
PersonalInjurySlots == {"situation", "location_time", "injuries"}
NoFaultSlots == {"provider_type", "accepts_no_fault", "outstanding_amount"}

\* C10: the slot keys of a personal_injury session are among case_type,
\* name, phone_confirmed and the three personal-injury slots (so it holds no
\* no-fault slot), those of a no_fault session among case_type, name,
\* phone_confirmed and the three no-fault slots, and a session in
\* outside_practice_area holds no slot of either track.
C10_SlotsLegalForTrack ==
  \A c \in DOMAIN collected_info :
    LET info == collected_info[c] IN
    /\ (Has(info, "case_type") /\ Get(info, "case_type") = "personal_injury") =>
         Keys(info) \subseteq CommonSlots \cup PersonalInjurySlots
    /\ (Has(info, "case_type") /\ Get(info, "case_type") = "no_fault") =>
         Keys(info) \subseteq CommonSlots \cup NoFaultSlots
    /\ StateOf(current_state, c) = outside_practice_area =>
         Keys(info) \cap (PersonalInjurySlots \cup NoFaultSlots) = {}

\* a personal_injury session went through its whole track
C10_PersonalInjuryTrackFilled ==
  \E c \in DOMAIN collected_info :
    LET info == collected_info[c] IN
    /\ Has(info, "case_type") /\ Get(info, "case_type") = "personal_injury"
    /\ PersonalInjurySlots \subseteq Keys(info)

----------------------------------------------------------------------------
(* Two calls served at once by the one event loop. *)

\* SpecTwo: connection k serves call-id k, and each caller has one utterance;
\* the loops of the two connections interleave at their await points
\* (accept/send_text, receive_text)
TwoUtterance(k) == IF k = 1 THEN U_CAR ELSE U_NOFAULT
TwoPayloads(k) ==
  {Request("response_required", <<Msg("user", TwoUtterance(k))>>, 1),
   Request("response_required", <<NOT_DICT, Msg("user", TwoUtterance(k))>>, 1),
   Request("update_only", <<Msg("user", U_CAR)>>, 1), NotJson}

NextTwo ==
  \E k \in Conns :
    \/ Connect(k, k)
    \/ \E p \in TwoPayloads(k) : WithinVocab(call_of[k], p) /\ Receive(k, p)
    \/ NextIteration(k)
    \/ Disconnect(k)

SpecTwo == Init /\ [][NextTwo]_vars

\* the entry of call-id c in a registry, if any
Entry(d, c) == IF c \in DOMAIN d THEN <<d[c]>> ELSE <<>>
\* a registry without the entries of the call-ids other than c
Only(d, c) == [x \in (DOMAIN d) \cap {c} |-> d[x]]
\* the call-id on whose behalf connection k takes a step
ActingCall(k) == IF pc[k] = "closed" THEN call_of'[k] ELSE call_of[k]
\* what one handling leaves for call-id c: its four entries and the replies
EffectOn(h, c) ==
  <<Entry(h.out.active_calls, c), Entry(h.out.conversation_memory, c),
    Entry(h.out.current_state, c), Entry(h.out.collected_info, c),
    h.out.ret, h.caught>>

\* C11: a step taken for call-id A (connect, one handled event, end of an
\* iteration, disconnect cleanup) leaves the four registry entries of every
\* other call-id B, and the position, payload and replies of every other
\* connection, as they were; and what a handled event leaves for A (entries
\* and replies) is what the same event leaves when the registries hold no
\* entry of any other call-id.  So the events of A and B commute, and B ends
\* as when it runs alone.
C11_CallsAreIndependent ==
  [][\A k \in Conns :
       pc'[k] # pc[k] =>
         /\ \A B \in CallIds \ {ActingCall(k)} :
              /\ Entry(active_calls', B) = Entry(active_calls, B)
              /\ Entry(conversation_memory', B) = Entry(conversation_memory, B)
              /\ Entry(current_state', B) = Entry(current_state, B)
              /\ Entry(collected_info', B) = Entry(collected_info, B)
         /\ \A j \in Conns \ {k} :
              /\ pc'[j] = pc[j] /\ call_of'[j] = call_of[j]
              /\ data'[j] = data[j] /\ response_data'[j] = response_data[j]
              /\ caught'[j] = caught[j]
         /\ Handled(k) =>
              \A A \in {call_of[k]} :
                \A alone \in {handle_payload(data'[k], A, Only(active_calls, A),
                                             Only(conversation_memory, A),
                                             Only(current_state, A),
                                             Only(collected_info, A), hashseed)} :
                  EffectOn(alone, A)
                    = <<Entry(active_calls', A), Entry(conversation_memory', A),
                        Entry(current_state', A), Entry(collected_info', A),
                        response_data'[k], caught'[k]>>
    ]_vars

\* C11 witness: call 1 has just answered an utterance while call 2 is in the
\* middle of its own dialogue, in another state and with its own slots
C11_BothCallsInDialogue ==
  /\ pc[1] = "loop_end" /\ IsRequest(data[1], "response_required")
  /\ Len(response_data[1]) = 1
  /\ pc[2] = "receive"
  /\ 1 \in DOMAIN current_state /\ 2 \in DOMAIN current_state
  /\ current_state[1] = collecting_info
  /\ current_state[2] = qualifying_no_fault
  /\ collected_info[1] # collected_info[2]

\* C12: the replies to an event do not depend on the process: handled in the
\* same session state, the same payload gets the same replies under every
\* value of the interpreter's string-hash salt.  add_empathy_markers picks
\* the opener by hash(context) % 4, and hash of a str is salted per process:
\* this property is violated.
C12_ReplySameInEveryProcess ==
  [][\A k \in Conns :
       Handled(k) =>
         \A salt \in 0..MaxSeed :
           \A h \in {handle_payload(data'[k], call_of[k], active_calls,
                                    conversation_memory, current_state,
                                    collected_info, salt)} :
             h.out.ret = response_data'[k]
    ]_vars

\* C13: a handled response_required event whose transcript is empty (a
\* missing transcript reads as the empty list) gets one reply with the
\* event's response_id whose content is the initial greeting enhanced with
\* an empty context, in every dialogue state, and the step leaves the
\* dialogue states and the slot records as they were.
C13_EmptyTranscriptGreets ==
  [][\A k \in Conns :
       (/\ Handled(k)
        /\ IsRequest(data'[k], "response_required")
        /\ Len(data'[k].transcript) = 0) =>
         /\ \A greeting \in {enhance_with_voice_presence(GREETING, <<>>, hashseed)} :
              /\ ~greeting.raised
              /\ response_data'[k] = <<Reply(data'[k].response_id, greeting.text)>>
         /\ UNCHANGED <<current_state, collected_info>>
    ]_vars

\* C13 witness: a call in the middle of slot collection, with its case type
\* known, has just been answered with the greeting for an empty transcript
C13_GreetedWhileCollecting ==
  /\ pc[1] = "loop_end"
  /\ IsRequest(data[1], "response_required")
  /\ Len(data[1].transcript) = 0
  /\ StateOf(current_state, call_of[1]) = collecting_info
  /\ Has(collected_info[call_of[1]], "case_type")
  /\ Len(response_data[1]) = 1
  /\ response_data[1][1].content = Marked(GREETING)

\* C14: every handled reminder_required event that is a JSON object has
\* exactly one reply, with the event's response_id.  The reminder text is
\* enhanced with the whole transcript as context; a transcript whose recent
\* entries have a null content, or are no objects, makes the enhancement
\* raise and the event gets no reply: this predicate is violated.
C14_ReminderAlwaysAnswered ==
  \A k \in Conns :
    (pc[k] = "loop_end" /\ IsRequest(data[k], "reminder_required")) =>
      IsReplyTo(response_data[k], data[k])

----------------------------------------------------------------------------
(* The classifier on utterances that hit none, one or two keyword lists. *)

\* SpecClassify: one connection whose caller opens with any of these
ClassifyUtterances == {U_CAR, U_NOFAULT, U_DIVORCE, U_HELLO, U_DENIED, U_FAMILY}
ClassifyPayloads ==
  {Request("response_required", <<Msg("user", u)>>, 1) : u \in ClassifyUtterances}

NextClassify ==
  \E k \in {1} :
    \/ Connect(k, 1)
    \/ \E p \in ClassifyPayloads : WithinVocab(call_of[k], p) /\ Receive(k, p)
    \/ NextIteration(k)
    \/ Disconnect(k)

SpecClassify == Init /\ [][NextClassify]_vars

\* some keyword of the list occurs in the lower-cased utterance
Hits(keywords, utterance) ==
  \E i \in 1..Len(keywords) : Contains(lower(utterance), keywords[i])
\* the label by the claimed priority
PriorityLabel(utterance) ==
  CASE Hits(pi_keywords, utterance) -> "personal_injury"
    [] ~Hits(pi_keywords, utterance) /\ Hits(nf_keywords, utterance) -> "no_fault"
    [] /\ ~Hits(pi_keywords, utterance) /\ ~Hits(nf_keywords, utterance)
       /\ Hits(outside_keywords, utterance) -> "outside_practice"
    [] OTHER -> "unknown"
\* connection k has just handled an utterance in dialogue state `state`
HandledUtteranceIn(k, state) ==
  /\ Handled(k)
  /\ IsRequest(data'[k], "response_required")
  /\ Len(data'[k].transcript) = 1
  /\ data'[k].transcript[1].shape = "msg"
  /\ StateOf(current_state, call_of[k]) = state

\* C15: whenever the flow classifies an utterance (the first utterance of a
\* call, handled in the initial state), the label identify_case_type
\* returns is the one the priority personal-injury, no-fault,
\* outside-practice, unknown gives on the lower-cased utterance; the label
\* depends on the utterance alone, and the session shows no trace of the
\* classification beyond what the calling branch does with the label: the
\* slot case_type, if written, holds that label, and an unknown or
\* outside-practice label leaves the slot record empty.
C15_ClassifierByPriority ==
  [][\A k \in Conns :
       HandledUtteranceIn(k, initial_greeting) =>
         \A c \in {call_of[k]} :
           \A label \in {identify_case_type(data'[k].transcript[1].content)} :
             /\ label = PriorityLabel(data'[k].transcript[1].content)
             /\ label = "personal_injury" =>
                  \/ /\ current_state'[c] = collecting_info
                     /\ collected_info'[c] = <<<<"case_type", label>>>>
                  \/ /\ current_state'[c] = identifying_caller
                     /\ collected_info'[c] = NoSlots
             /\ label = "no_fault" =>
                  /\ current_state'[c] = collecting_info
                  /\ collected_info'[c] = <<<<"case_type", label>>>>
             /\ label = "outside_practice" =>
                  /\ current_state'[c] = outside_practice_area
                  /\ collected_info'[c] = NoSlots
             /\ label = "unknown" =>
                  /\ current_state'[c] = identifying_caller
                  /\ collected_info'[c] = NoSlots
    ]_vars

\* C15 witness: an utterance with a personal-injury and a no-fault keyword
\* ('accident', 'denied') was classified as personal injury
C15_PersonalInjuryBeforeNoFault ==
  /\ pc[1] = "loop_end"
  /\ IsRequest(data[1], "response_required")
  /\ data[1].transcript = <<Msg("user", U_DENIED)>>
  /\ Hits(pi_keywords, U_DENIED) /\ Hits(nf_keywords, U_DENIED)
  /\ current_state[1] = collecting_info
  /\ collected_info[1] = <<<<"case_type", "personal_injury">>>>

\* connection k disconnects: its loop leaves through the finally clause
Disconnected(k) == pc[k] = "receive" /\ pc'[k] = "closed"
\* neither registry the cleanup pops from holds call-id c
Absent(c) == c \notin DOMAIN active_calls /\ c \notin DOMAIN conversation_memory

\* C16: when a connection disconnects while the registries the cleanup pops
\* from hold no entry for its call-id (no event was processed on it, or only
\* payloads that failed before call tracking), the cleanup runs to its end
\* (the connection is closed) and all four registries, with the entries of
\* every other call-id, are exactly as before.
C16_CleanupOfAbsentIdIsNoOp ==
  [][\A k \in Conns :
       (Disconnected(k) /\ Absent(call_of[k])) =>
         /\ UNCHANGED registries
         /\ call_of'[k] = NoCall
         /\ \A j \in Conns \ {k} : pc'[j] = pc[j] /\ call_of'[j] = call_of[j]
    ]_vars

\* C16 witness: connection 1 has been greeted and has handled no event, the
\* registries hold nothing for its call-id, and call 2 has its entries in
\* all four registries: the state in which connection 1 disconnects
C16_DisconnectBeforeAnyEvent ==
  /\ pc[1] = "receive"
  /\ Absent(call_of[1])
  /\ call_of[1] \notin DOMAIN current_state
  /\ pc[2] = "receive"
  /\ call_of[2] \in DOMAIN active_calls
  /\ call_of[2] \in DOMAIN conversation_memory
  /\ call_of[2] \in DOMAIN current_state
  /\ call_of[2] \in DOMAIN collected_info

\* the number of slots an event must have written by the time it has moved
\* a session into `state`
MinSlots(state) ==
  CASE state = collecting_info -> 1
    [] state \in {qualifying_personal_injury, qualifying_no_fault} -> 3
    [] state \in {qualified_ready_transfer, not_qualified} -> 6
    [] OTHER -> 0
\* what any reader of the registries sees of call-id c is a whole session:
\* state and slot record exist together, and the slots that brought the
\* session into its state are there
WholeSession(cs, ci, c) ==
  /\ c \in DOMAIN cs <=> c \in DOMAIN ci
  /\ c \in DOMAIN cs => Len(ci[c]) >= MinSlots(cs[c])

PersonalInjuryOrder ==
  <<"case_type", "name", "phone_confirmed", "situation", "location_time", "injuries">>
NoFaultOrder ==
  <<"case_type", "name", "phone_confirmed",
    "provider_type", "accepts_no_fault", "outstanding_amount">>
\* the keys of a slot record in the order they were first written
KeySeq(info) == [i \in 1..Len(info) |-> info[i][1]]
IsPrefix(p, s) == Len(p) <= Len(s) /\ p = SubSeq(s, 1, Len(p))
\* the order of the track a slot record is on
OrderOf(info) ==
  IF Has(info, "case_type") /\ Get(info, "case_type") = "no_fault"
  THEN NoFaultOrder ELSE PersonalInjuryOrder
SlotCollecting == {collecting_info, qualifying_personal_injury, qualifying_no_fault}
\* connection k has just handled a response_required event whose last
\* transcript entry carries an utterance (a string, or the empty default)
HandledUtterance(k) ==
  /\ Handled(k)
  /\ IsRequest(data'[k], "response_required")
  /\ Len(data'[k].transcript) > 0
  /\ data'[k].transcript[Len(data'[k].transcript)].shape \in {"msg", "no_content"}

\* C18: after every step the slot keys of every call, in the order they were
\* written, are a prefix of the order of its track (case_type, name,
\* phone_confirmed, then situation, location_time, injuries or
\* provider_type, accepts_no_fault, outstanding_amount); and a
\* response_required event with an utterance, handled in a slot-collecting
\* state (collecting_info or one of the two qualifications), writes exactly
\* one slot, the first of that order that was not yet filled.
C18_SlotsFilledInOrder ==
  [][/\ \A c \in DOMAIN collected_info' :
          IsPrefix(KeySeq(collected_info'[c]), OrderOf(collected_info'[c]))
     /\ \A k \in Conns :
          (HandledUtterance(k)
           /\ StateOf(current_state, call_of[k]) \in SlotCollecting) =>
             \A before \in {collected_info[call_of[k]]} :
               /\ Len(before) < Len(OrderOf(before))
               /\ KeySeq(collected_info'[call_of[k]])
                    = Append(KeySeq(before), OrderOf(before)[Len(before) + 1])
               /\ SubSeq(collected_info'[call_of[k]], 1, Len(before)) = before
    ]_vars

\* C18 witness: the event just handled in the no-fault qualification wrote
\* accepts_no_fault, the fifth slot of the no-fault order
C18_FifthNoFaultSlotWritten ==
  /\ pc[1] = "loop_end"
  /\ IsRequest(data[1], "response_required")
  /\ Len(data[1].transcript) > 0
  /\ 1 \in DOMAIN collected_info
  /\ KeySeq(collected_info[1]) = SubSeq(NoFaultOrder, 1, 5)
  /\ current_state[1] = qualifying_no_fault

\* the prefixes of the emotion pass, and the openers of the empathy pass
EmotionPrefixes ==
  {TRAUMA_PREFIX, FRUSTRATION_PREFIX, CONFUSION_PREFIX, URGENCY_PREFIX}
EmpathyOpeners ==
  {empathy_phrases[i] \o <<".", " ">> : i \in 1..Len(empathy_phrases)}
  \cup {SEVERE_PREFIX}

\* C19: no reply carries two prefixes triggered by emotion keywords of the
\* context: a prefix of the emotion pass followed by an opener of the
\* empathy pass.  The emotion pass itself applies one rewrite (if / elif in
\* the order trauma, frustration, confusion, urgency), but it wraps the text
\* the empathy pass has already prefixed, and 'accident' and 'injured' are
\* keywords of both passes: this predicate is violated.
C19_AtMostOneEmotionPrefix ==
  \A k \in Conns :
    (pc[k] = "loop_end" /\ Len(response_data[k]) = 1) =>
      \A e \in EmotionPrefixes : \A o \in EmpathyOpeners :
        ~IsPrefix(e \o o, response_data[k][1].content)

\* C20: a handled response_required event that gets no reply leaves the
\* dialogue states and the slot records as they were.  generate_response
\* runs the flow (which stores the new state and the slot) before it
\* enhances the reply, and the enhancement raises on a context entry that
\* is no object or has a null content; get_next_response creates the call's
\* entries before it raises on a null utterance: this property is violated.
C20_UnansweredEventChangesNothing ==
  [][\A k \in Conns :
       (/\ Handled(k)
        /\ IsRequest(data'[k], "response_required")
        /\ response_data'[k] = <<>>) =>
         UNCHANGED <<current_state, collected_info>>
    ]_vars

\* the states that end the intake of a session on a track
Finished == {qualified_ready_transfer, not_qualified}
\* the response_required events with an utterance a session on a track
\* still needs: one per slot of its track that is not written
Remaining(info) == Len(PersonalInjuryOrder) - Len(info)

\* C21: a session enters collecting_info with 5 events to go; while it is
\* in collecting_info or in a qualification, every response_required event
\* that carries an utterance takes exactly one from that number whatever
\* the utterance is, the session is in qualified_ready_transfer or
\* not_qualified exactly when the number has reached 0, and every other
\* step (update_only, reminder_required, an empty transcript, an unknown
\* type, text that is no JSON, connect, disconnect) leaves the state and the
\* number as they are.  So the fifth such event after the entry, and no
\* earlier one, ends the intake.
C21_FiveUtterancesToTheEnd ==
  [][\A c \in DOMAIN current_state' :
       \A before \in {StateOf(current_state, c)} : \A after \in {current_state'[c]} :
         /\ (after = collecting_info /\ before # collecting_info) =>
              Remaining(collected_info'[c]) = 5
         /\ before \in SlotCollecting =>
              IF \E k \in Conns : call_of[k] = c /\ HandledUtterance(k)
              THEN /\ Remaining(collected_info'[c]) = Remaining(collected_info[c]) - 1
                   /\ after \in Finished <=> Remaining(collected_info'[c]) = 0
                   /\ after \notin Finished => after \in SlotCollecting
              ELSE /\ after = before
                   /\ collected_info'[c] = collected_info[c]
         /\ after \in SlotCollecting => Remaining(collected_info'[c]) \in 1..5
    ]_vars

\* C21 witness: the fifth utterance after the entry into collecting_info has
\* just ended a personal-injury intake without injuries
C21_FifthUtteranceEndsIntake ==
  /\ pc[1] = "loop_end"
  /\ IsRequest(data[1], "response_required")
  /\ Len(data[1].transcript) > 0
  /\ 1 \in DOMAIN current_state
  /\ current_state[1] = not_qualified
  /\ Remaining(collected_info[1]) = 0
  /\ collected_info[1][6][2] = data[1].transcript[Len(data[1].transcript)].content

\* the slot record holds exactly the first n slots of the order
FilledUpTo(info, order, n) == Keys(info) = {order[i] : i \in 1..n}
\* the value of the slot case_type, "" when it is not written
CaseTypeOf(info) == IF Has(info, "case_type") THEN Get(info, "case_type") ELSE ""

\* C22: in every reachable state, state and slot record of every call
\* agree: a call-id has a dialogue state exactly when it has a slot record;
\* in initial_greeting, identifying_caller and outside_practice_area the
\* record is empty; in collecting_info case_type is personal_injury or
\* no_fault and phone_confirmed is not written; in a qualification the
\* case_type is the qualification's, name and phone_confirmed are written
\* and the track's last slot is not; in not_qualified the six
\* personal-injury slots are written; in qualified_ready_transfer the six
\* slots of the session's track.
C22_StateAndSlotsAgree ==
  /\ DOMAIN current_state = DOMAIN collected_info
  /\ \A c \in DOMAIN current_state :
       \A state \in {current_state[c]} : \A info \in {collected_info[c]} :
         /\ state \in {initial_greeting, identifying_caller, outside_practice_area} =>
              info = NoSlots
         /\ state = collecting_info =>
              /\ CaseTypeOf(info) \in {"personal_injury", "no_fault"}
              /\ ~Has(info, "phone_confirmed")
         /\ state = qualifying_personal_injury =>
              /\ CaseTypeOf(info) = "personal_injury"
              /\ Has(info, "name") /\ Has(info, "phone_confirmed")
              /\ ~Has(info, "injuries")
         /\ state = qualifying_no_fault =>
              /\ CaseTypeOf(info) = "no_fault"
              /\ Has(info, "name") /\ Has(info, "phone_confirmed")
              /\ ~Has(info, "outstanding_amount")
         /\ state = not_qualified =>
              /\ CaseTypeOf(info) = "personal_injury"
              /\ FilledUpTo(info, PersonalInjuryOrder, 6)
         /\ state = qualified_ready_transfer =>
              FilledUpTo(info, OrderOf(info), 6)

\* C22 witness: a no-fault session in qualified_ready_transfer with the six
\* no-fault slots, whose connection is closed
C22_NoFaultSessionTransferred ==
  /\ pc[1] = "closed"
  /\ 1 \in DOMAIN current_state
  /\ current_state[1] = qualified_ready_transfer
  /\ CaseTypeOf(collected_info[1]) = "no_fault"
  /\ KeySeq(collected_info[1]) = NoFaultOrder

----------------------------------------------------------------------------
(* The classifier on the keywords themselves. *)

\* the elements of a list
Range(list) == {list[i] : i \in 1..Len(list)}

\* SpecKeywords: one connection whose caller says single keywords of the
\* no-fault and the outside-practice list
KeywordUtterances == Range(nf_keywords) \cup Range(outside_keywords)
KeywordPayloads ==
  {Request("response_required", <<Msg("user", u)>>, 1) : u \in KeywordUtterances}

NextKeywords ==
  \E k \in {1} :
    \/ Connect(k, 1)
    \/ \E p \in KeywordPayloads : WithinVocab(call_of[k], p) /\ Receive(k, p)
    \/ NextIteration(k)
    \/ Disconnect(k)

SpecKeywords == Init /\ [][NextKeywords]_vars

\* C23: an opening utterance that is a single keyword of the no-fault list
\* puts the session on the no-fault track (collecting_info with case_type
\* no_fault), and one that is a single keyword of the outside-practice list
\* puts it into outside_practice_area.  The no-fault keyword 'healthcare'
\* contains the personal-injury keyword 'car', and the personal-injury list
\* is tried first: this property is violated.
C23_KeywordsClassifyAsTheirList ==
  [][\A k \in Conns :
       HandledUtteranceIn(k, initial_greeting) =>
         \A c \in {call_of[k]} : \A u \in {data'[k].transcript[1].content} :
           /\ u \in Range(nf_keywords) =>
                /\ identify_case_type(u) = "no_fault"
                /\ current_state'[c] = collecting_info
                /\ collected_info'[c] = <<<<"case_type", "no_fault">>>>
           /\ u \in Range(outside_keywords) =>
                /\ identify_case_type(u) = "outside_practice"
                /\ current_state'[c] = outside_practice_area
    ]_vars

====
